---- MODULE Spec2Model ----
(***************************************************************************)
(* A model of content-services/yummy (package yum): the Repository facade  *)
(* with its memoized slots (src/pkg/yum/repository.go, ModuleMDs from      *)
(* src/unnamed/part_001) and the streaming decoder ParseCompressedXMLData. *)
(*                                                                         *)
(* Go values: a pointer or slice that is nil is Nil; a non-nil one is      *)
(* Some(v).  A non-nil empty slice is Some(<<>>), which Go code tells      *)
(* apart from nil with "x != nil".  An error is a string, "nil" for none.  *)
(***************************************************************************)
EXTENDS Integers, Sequences, FiniteSets, TLC

VARIABLES
    r,      \* the Repository: settings and the memoized slots
    last,   \* the last facade call: operation, returned triple, GETs issued
    memo,   \* history: per operation, what its latest nil-error call returned
    pin,    \* decoder input: body stream and maxSize
    pout    \* decoder output: ([]Package, error) and what the call touched

vars == <<r, last, memo, pin, pout>>

Nil == [isNil |-> TRUE]
Some(v) == [isNil |-> FALSE, v |-> v]

Min(a, b) == IF a <= b THEN a ELSE b
Max(a, b) == IF a >= b THEN a ELSE b

(***************************************************************************)
(* Bounds of the model.                                                    *)
(***************************************************************************)
\* package-level items between <metadata> and </metadata>
MaxItems == 3
\* bytes of one lexeme (a tag, a text run): a cut can fall inside a lexeme
LexLen == 2

\* const DefaultMaxXmlSize = int64(512 * 1024 * 1024)
DefaultMaxXmlSize == 536870912
\* bufferedReader.Peek(20)
PeekLen == 20

(***************************************************************************)
(* The decompressed catalog, as lexemes of LexLen bytes each:              *)
(*   "PI"  <?xml version="1.0"?>            (markup, opens nothing)        *)
(*   "T"   character data                                                  *)
(*   "M"   <metadata>          "m"  </metadata>                            *)
(*   "Pa"  <package type="rpm"> with <name>a</name>                        *)
(*   "Pb"  <package type="rpm"> with <name>b</name>                        *)
(*   "Pc"  <package type="srpm"> with <name>c</name>                       *)
(*   "p"   </package>                                                      *)
(*   "B"   <version epoch="x"/>: well-formed XML, epoch is no int32        *)
(*   "X"   malformed markup (a syntax error for the tokenizer)             *)
(* A document is an optional prolog, the root element, up to MaxItems      *)
(* items inside it, the root's end tag unless the source document itself   *)
(* lacks it, and after the end tag an optional run of character data (the  *)
(* newline that ends a primary.xml).                                       *)
(***************************************************************************)
Items == {"rpmA", "rpmB", "src", "bad", "syn", "txt"}

ItemLex(it) ==
    CASE it = "rpmA" -> <<"Pa", "p">>
      [] it = "rpmB" -> <<"Pb", "p">>
      [] it = "src"  -> <<"Pc", "p">>
      [] it = "bad"  -> <<"Pa", "B", "p">>
      [] it = "syn"  -> <<"X">>
      [] it = "txt"  -> <<"T">>

RECURSIVE ItemsLex(_)
ItemsLex(its) ==
    IF its = <<>> THEN <<>> ELSE ItemLex(Head(its)) \o ItemsLex(Tail(its))

Lexemes(doc) ==
    (IF doc.prolog THEN <<"PI">> ELSE <<>>) \o <<"M">> \o ItemsLex(doc.items)
        \o (IF doc.closed THEN <<"m">> ELSE <<>>)
        \o (IF doc.tail THEN <<"T">> ELSE <<>>)

SeqsUpTo(S, n) == UNION {[1..k -> S] : k \in 0..n}

WellFormed(doc) ==
    doc.closed /\ \A i \in 1..Len(doc.items) : doc.items[i] \notin {"bad", "syn"}

\* tail: character data follows the root's end tag.  Only a well-formed
\* document carries one here: in any other the tokenizer stops at the defect
\* and never gets to what follows the root.
Docs ==
    {d \in [prolog : BOOLEAN, items : SeqsUpTo(Items, MaxItems),
             closed : BOOLEAN, tail : BOOLEAN] : d.tail => WellFormed(d)}

DocBytes(doc) == Len(Lexemes(doc)) * LexLen

IsText(l) == l = "T"
IsPackageStart(l) == l \in {"Pa", "Pb", "Pc"}

\* The record encoding/xml fills from a package element.
PackageOf(l) ==
    CASE l = "Pa" -> [Type |-> "rpm", Name |-> "a"]
      [] l = "Pb" -> [Type |-> "rpm", Name |-> "b"]
      [] l = "Pc" -> [Type |-> "srpm", Name |-> "c"]

(***************************************************************************)
(* Compression signatures (the sniffed prefix of the body).                *)
(***************************************************************************)
GzMagic == <<31, 139, 8>>
XzMagic == <<253, 55, 122, 88, 90, 0>>
ZstdMagic == <<40, 181, 47, 253>>
\* "<?xml ": a catalog that is not compressed
PlainMagic == <<60, 63, 120, 109, 108, 32>>
\* gzip's two id bytes with a compression method other than deflate
GzLikeMagic == <<31, 139, 0>>

Magics == {GzMagic, XzMagic, ZstdMagic, PlainMagic, GzLikeMagic}

IsPrefix(m, h) == Len(h) >= Len(m) /\ \A i \in 1..Len(m) : h[i] = m[i]

\* filetype.Match(header): the matchers of h2non/filetype for the three kinds.
MatchTwoBytes(header) ==
    CASE IsPrefix(<<31, 139>>, header) -> "gz"
      [] IsPrefix(XzMagic, header) -> "xz"
      [] IsPrefix(ZstdMagic, header) -> "zst"
      [] OTHER -> "unknown"
Match(header) ==
    CASE IsPrefix(GzMagic, header) -> "gz"
      [] IsPrefix(XzMagic, header) -> "xz"
      [] IsPrefix(ZstdMagic, header) -> "zst"
      [] OTHER -> "unknown"

(***************************************************************************)
(* A body stream: its first bytes (magic), its compressed length clen,     *)
(* whether the compressed header after the magic is intact (hdrOK), the    *)
(* document it decompresses to, and derr: the number of decompressed bytes *)
(* after which the decompressor reports a data error (a truncated or       *)
(* corrupted compressed stream), -1 for a sound stream.                    *)
(***************************************************************************)
Compress(magic, doc) ==
    [magic |-> magic, clen |-> PeekLen + DocBytes(doc), hdrOK |-> TRUE,
     doc |-> doc, derr |-> -1]

\* bufferedReader.Peek(20): the header, and io.EOF when the stream is shorter
PeekWhatIsThere(body) ==
    [header |-> SubSeq(body.magic, 1, Min(Len(body.magic), body.clen)),
     err |-> "nil"]
Peek(body) ==
    IF body.clen < PeekLen
        THEN [header |-> SubSeq(body.magic, 1, Min(Len(body.magic), body.clen)),
              err |-> "EOF"]
        ELSE [header |-> body.magic, err |-> "nil"]

\* gzip.NewReader and xz.NewReader read the stream header when constructed;
\* zstd.NewReader reads nothing until the first Read.
NewReader(kind, body) ==
    IF kind \in {"gz", "xz"} /\ ~body.hdrOK
        THEN [err |-> "Error unzipping response body"]
        ELSE [err |-> "nil"]

\* The bytes the decompressor yields before it ends, and how it ends.
UnderlyingEndsClean(kind, body) ==
    LET total == DocBytes(body.doc)
        de == IF kind = "zst" /\ ~body.hdrOK THEN 0 ELSE body.derr
    IN  [n |-> IF de >= 0 /\ de <= total THEN de ELSE total, end |-> "EOF"]
Underlying(kind, body) ==
    LET total == DocBytes(body.doc)
        de == IF kind = "zst" /\ ~body.hdrOK THEN 0 ELSE body.derr
    IN  IF de >= 0 /\ de <= total
            THEN [n |-> de, end |-> "ERR"]
            ELSE [n |-> total, end |-> "EOF"]

\* io.LimitReader(reader, maxSize): at most maxSize bytes, then io.EOF
LimitReaderOff(u, maxSize) == u
LimitReaderTwice(u, maxSize) ==
    LET n == 2 * Max(maxSize, 0)
    IN  IF n <= u.n THEN [n |-> n, end |-> "EOF"] ELSE u
LimitReader(u, maxSize) ==
    LET n == Max(maxSize, 0)
    IN  IF n <= u.n THEN [n |-> n, end |-> "EOF"] ELSE u

(***************************************************************************)
(* encoding/xml on the limited stream `s` ([n, end]) over lexemes `lex`.   *)
(* Lexeme i covers bytes (i-1)*LexLen .. i*LexLen.                         *)
(*   "full"    the lexeme is wholly readable                               *)
(*   "partial" the stream ends inside it                                   *)
(*   "end"     the stream has ended before it                              *)
(***************************************************************************)
Avail(lex, s, i) ==
    IF i > Len(lex) \/ (i - 1) * LexLen >= s.n THEN "end"
    ELSE IF i * LexLen <= s.n THEN "full"
    ELSE "partial"

\* decoder.DecodeElement(&pkg, &elType) from the lexeme after the package
\* start tag; open is the stack of elements opened inside the package.
\* Returns the index after the package's end tag, or the error.
RECURSIVE DecodeElement(_, _, _, _)
DecodeElement(lex, s, i, open) ==
    LET a == Avail(lex, s, i) IN
    IF a = "end" THEN [ok |-> FALSE, next |-> i]
    ELSE IF a = "partial" THEN
        IF IsText(lex[i]) THEN DecodeElement(lex, s, i + 1, open)
        ELSE [ok |-> FALSE, next |-> i]
    ELSE
        CASE lex[i] \in {"T", "PI"} -> DecodeElement(lex, s, i + 1, open)
          [] lex[i] = "X" -> [ok |-> FALSE, next |-> i]
          [] lex[i] = "B" ->
                IF open = <<>> THEN [ok |-> FALSE, next |-> i]
                ELSE DecodeElement(lex, s, i + 1, open)
          [] lex[i] = "M" \/ IsPackageStart(lex[i]) ->
                DecodeElement(lex, s, i + 1,
                    <<IF lex[i] = "M" THEN "m" ELSE "p">> \o open)
          [] lex[i] \in {"m", "p"} ->
                IF open = <<>>
                    THEN IF lex[i] = "p" THEN [ok |-> TRUE, next |-> i + 1]
                         ELSE [ok |-> FALSE, next |-> i]
                ELSE IF Head(open) = lex[i]
                    THEN DecodeElement(lex, s, i + 1, Tail(open))
                ELSE [ok |-> FALSE, next |-> i]

\* pkg.Type != "rpm": the record is dropped
KeepAll(pkg) == TRUE
Keep(pkg) == pkg.Type = "rpm"

\* The returns of the loop.  acc is the local `result` at the return: the
\* records appended so far, whatever the return statement hands back.

\* return []Package{}, fmt.Errorf("Error decoding token: %w", decodeError)
TokenError(result, tokens) ==
    [result |-> Some(<<>>), acc |-> result, err |-> "Error decoding token",
     tokens |-> tokens]

\* return result, decodeElementError
ElementError(result, tokens) ==
    [result |-> Some(result), acc |-> result, err |-> "decodeElementError",
     tokens |-> tokens]

\* decoder.Token() at the end of the stream: io.EOF with no element open,
\* a syntax error (unexpected EOF) with one open, the read error otherwise
EndOfStream(s, stk, result, tokens) ==
    IF s.end = "ERR" \/ stk # <<>> THEN TokenError(result, tokens)
    ELSE [result |-> Some(result), acc |-> result, err |-> "nil",
          tokens |-> tokens]

\* The loop "for { t, decodeError := decoder.Token() ... }": i is the next
\* lexeme, stk the open elements, tokens the calls of Token so far.
RECURSIVE TokenLoop(_, _, _, _, _, _)
TokenLoop(lex, s, i, stk, result, tokens) ==
    LET a == Avail(lex, s, i) IN
    IF a = "end" THEN EndOfStream(s, stk, result, tokens + 1)
    ELSE IF a = "partial" THEN
        IF IsText(lex[i]) THEN TokenLoop(lex, s, i + 1, stk, result, tokens + 1)
        ELSE TokenError(result, tokens + 1)
    ELSE
        CASE lex[i] \in {"T", "PI", "B"} ->
                TokenLoop(lex, s, i + 1, stk, result, tokens + 1)
          [] lex[i] = "X" -> TokenError(result, tokens + 1)
          [] lex[i] = "M" ->
                TokenLoop(lex, s, i + 1, <<"m">> \o stk, result, tokens + 1)
          [] lex[i] \in {"m", "p"} ->
                IF stk # <<>> /\ Head(stk) = lex[i]
                    THEN TokenLoop(lex, s, i + 1, Tail(stk), result, tokens + 1)
                    ELSE TokenError(result, tokens + 1)
          [] IsPackageStart(lex[i]) ->
                LET d == DecodeElement(lex, s, i + 1, <<>>) IN
                IF ~d.ok THEN ElementError(result, tokens + 1)
                ELSE TokenLoop(lex, s, d.next, stk,
                        IF Keep(PackageOf(lex[i]))
                            THEN Append(result, PackageOf(lex[i]))
                            ELSE result,
                        tokens + 1)

\* switch fileType { case matchers.TypeGz: ... default: return error }
SupportedGzOnly(kind) == kind = "gz"
Supported(kind) == kind \in {"gz", "zst", "xz"}

\* an early return of ParseCompressedXMLData: []Package{} and the error
Early(err) ==
    [result |-> Some(<<>>), acc |-> <<>>, err |-> err, built |-> FALSE,
     tokens |-> 0]

\* ParseCompressedXMLData(body, maxSize): the records and the error, whether
\* a decompressor was constructed, and the calls of decoder.Token.
ParseCompressedXMLData(body, maxSize) ==
    LET pk == Peek(body)
        kind == Match(pk.header)
    IN  IF pk.err # "nil" THEN Early(pk.err)
        ELSE IF ~Supported(kind) THEN Early("invalid file type")
        ELSE IF NewReader(kind, body).err # "nil"
            THEN Early(NewReader(kind, body).err)
        ELSE LET s == LimitReader(Underlying(kind, body), maxSize)
                 o == TokenLoop(Lexemes(body.doc), s, 1, <<>>, <<>>, 0)
             IN  [result |-> o.result, acc |-> o.acc, err |-> o.err,
                  built |-> TRUE, tokens |-> o.tokens]

(***************************************************************************)
(* The decoder on bounded inputs: every document, every signature, every   *)
(* ceiling up to one byte past the document, and every point at which a    *)
(* damaged compressed stream can break off.                                *)
(***************************************************************************)
StreamDefects == {"none", "short", "empty", "header"}

\* maxSize: every ceiling from below zero to one byte past the document
Ceilings(d) == -1..(DocBytes(d) + 1)

NotRun == [done |-> FALSE]

InitParse ==
    /\ \E m \in Magics, d \in Docs :
        \/ \E ms \in Ceilings(d) :
                pin = [body |-> Compress(m, d), maxSize |-> ms]
        \/ \E df \in StreamDefects :
                pin = [body |-> [magic |-> m,
                                clen |-> IF df = "short" THEN PeekLen - 1
                                         ELSE IF df = "empty" THEN 0
                                         ELSE PeekLen + DocBytes(d),
                                hdrOK |-> df # "header", doc |-> d, derr |-> -1],
                       maxSize |-> DefaultMaxXmlSize]
        \/ \E de \in 0..DocBytes(d) :
                pin = [body |-> [Compress(m, d) EXCEPT !.derr = de],
                       maxSize |-> DefaultMaxXmlSize]
    /\ pout = NotRun
    /\ r = Nil
    /\ last = Nil
    /\ memo = Nil

\* result, err := ParseCompressedXMLData(body, maxSize)
Parse ==
    /\ ~pout.done
    /\ LET o == ParseCompressedXMLData(pin.body, pin.maxSize)
       IN  pout' = [done |-> TRUE, result |-> o.result, acc |-> o.acc,
                    err |-> o.err, built |-> o.built, tokens |-> o.tokens]
    /\ UNCHANGED <<r, last, memo, pin>>

NextParse == Parse

SpecParse == InitParse /\ [][NextParse]_vars

(***************************************************************************)
(* The facade: what the HTTP client and the decoders of the other          *)
(* artifacts return.                                                       *)
(*                                                                         *)
(* An HTTP exchange is [err, resp, status, body]: err when Client.Get      *)
(* returned an error, resp when the *http.Response is non-nil.             *)
(***************************************************************************)
NoResponse == [err |-> TRUE, resp |-> FALSE, status |-> 0]
\* a failed CheckRedirect: a non-nil response together with an error
RedirectRefused == [err |-> TRUE, resp |-> TRUE, status |-> 302]
Responded(status, body) ==
    [err |-> FALSE, resp |-> TRUE, status |-> status, body |-> body]

StatusOK == 200

\* erroredStatusCode(response)
erroredStatusCode(resp) == IF ~resp.resp THEN 0 ELSE resp.status

\* url.Parse(*r.settings.URL)
UnparsableURLs == {":bad"}
URLs == {"http://a/repo", "http://b/repo/", ":bad"}
URLParse(u) == IF u \in UnparsableURLs THEN "missing protocol scheme" ELSE "nil"

\* u.Path = path.Join(u.Path, href); u.String()
JoinURL(base, href) == [base |-> base, path |-> href]

\* getRepomdURL()
getRepomdURL(rr) ==
    IF URLParse(rr.settings.URL.v) # "nil"
        THEN [url |-> Nil, err |-> URLParse(rr.settings.URL.v)]
        ELSE [url |-> Some(JoinURL(rr.settings.URL.v, "/repodata/repomd.xml")),
              err |-> "nil"]

\* getSignatureURL(): url + ".asc"
getSignatureURL(rr) ==
    LET u == getRepomdURL(rr) IN
    IF u.err = "nil"
        THEN [url |-> Some([u.url.v EXCEPT !.path = "/repodata/repomd.xml.asc"]),
              err |-> "nil"]
        ELSE [url |-> Nil, err |-> u.err]

\* for _, data := range r.repomd.Data { if data.Type == t { loc = href } }
RECURSIVE LocationFirstWins(_, _, _)
LocationFirstWins(data, t, loc) ==
    IF data = <<>> THEN loc
    ELSE LocationFirstWins(Tail(data), t,
            IF Head(data).Type = t /\ loc = "" THEN Head(data).Href ELSE loc)
RECURSIVE Location(_, _, _)
Location(data, t, loc) ==
    IF data = <<>> THEN loc
    ELSE Location(Tail(data), t,
            IF Head(data).Type = t THEN Head(data).Href ELSE loc)

\* the body of getCompsURL and getPrimaryURL after the scan
LocationURLNoEntryCheck(rr, t, what) ==
    LET loc == Location(rr.repomd.v.Data, t, "") IN
    IF URLParse(rr.settings.URL.v) # "nil"
        THEN [url |-> Nil, err |-> URLParse(rr.settings.URL.v)]
    ELSE [url |-> Some(JoinURL(rr.settings.URL.v, loc)), err |-> "nil"]
LocationURL(rr, t, what) ==
    LET loc == Location(rr.repomd.v.Data, t, "") IN
    IF loc = "" THEN [url |-> Nil, err |-> what]
    ELSE IF URLParse(rr.settings.URL.v) # "nil"
        THEN [url |-> Nil, err |-> URLParse(rr.settings.URL.v)]
    ELSE [url |-> Some(JoinURL(rr.settings.URL.v, loc)), err |-> "nil"]

\* getCompsURL()
getCompsURL(rr) ==
    LocationURL(rr, "group", "Unable to parse 'comps' location in repomd.xml")

\* getPrimaryURL(): its own r.Repomd() finds the slot populated by the caller
getPrimaryURL(rr) ==
    LocationURL(rr, "primary", "Unable to parse 'primary' location in repomd.xml")

\* getModulesURL(): no URL and no error when the index has no modules entry
getModulesURL(rr) ==
    LET loc == Location(rr.repomd.v.Data, "modules", "") IN
    IF loc = "" THEN [url |-> Nil, err |-> "nil"]
    ELSE IF URLParse(rr.settings.URL.v) # "nil"
        THEN [url |-> Nil, err |-> URLParse(rr.settings.URL.v)]
    ELSE [url |-> Some(JoinURL(rr.settings.URL.v, loc)), err |-> "nil"]

\* responseBodyToString(body)
responseBodyToString(body) ==
    IF ~body.read THEN [val |-> Nil, err |-> "read failure"]
    ELSE [val |-> Some(body.text), err |-> "nil"]

\* ParseRepomdXML(body): a body is [read, xml, raw, Data, Revision]
EmptyRepomd == [Data |-> <<>>, Revision |-> "", RepomdString |-> Nil]

ParseRepomdXMLKeepsPartial(body) ==
    IF ~body.read THEN [val |-> EmptyRepomd, err |-> "io.reader read failure"]
    ELSE [val |-> [Data |-> body.Data, Revision |-> body.Revision,
                   RepomdString |-> Some(body.raw)],
          err |-> IF body.xml THEN "nil" ELSE "xml.Unmarshal failure"]
ParseRepomdXML(body) ==
    IF ~body.read THEN [val |-> EmptyRepomd, err |-> "io.reader read failure"]
    ELSE IF ~body.xml THEN [val |-> EmptyRepomd, err |-> "xml.Unmarshal failure"]
    ELSE [val |-> [Data |-> body.Data, Revision |-> body.Revision,
                   RepomdString |-> Some(body.raw)],
          err |-> "nil"]

(***************************************************************************)
(* comps.xml: a body is [read, closed, elems]; an element is               *)
(* [kind, ok, ID, Name, Description, PackageList], ok = FALSE for one that *)
(* DecodeElement rejects; closed = FALSE when the document ends inside     *)
(* <comps>.                                                                *)
(***************************************************************************)
\* item.Name[:1] and item.Description[:1] panic on an empty list
Localized(items) ==
    \E i \in 1..Len(items) : items[i].Name = <<>> \/ items[i].Description = <<>>

\* processItemsToRemoveLocalized(items): nil when there is no item
processItemsKeepLast(items) ==
    IF items = <<>> THEN Nil
    ELSE Some([i \in 1..Len(items) |->
            [items[i] EXCEPT !.Name = SubSeq(@, Len(@), Len(@)),
                             !.Description = SubSeq(@, 1, 1)]])
processItemsToRemoveLocalized(items) ==
    IF items = <<>> THEN Nil
    ELSE Some([i \in 1..Len(items) |->
            [items[i] EXCEPT !.Name = SubSeq(@, 1, 1),
                             !.Description = SubSeq(@, 1, 1)]])

RECURSIVE CompsLoop(_, _, _, _)
CompsLoop(body, i, groups, envs) ==
    IF i > Len(body.elems) THEN
        IF ~body.closed
            THEN [groups |-> Some(groups), envs |-> Some(envs),
                  err |-> "error decoding token", panic |-> FALSE]
        ELSE IF Localized(groups) \/ Localized(envs)
            THEN [groups |-> Nil, envs |-> Nil, err |-> "nil", panic |-> TRUE]
        ELSE [groups |-> processItemsToRemoveLocalized(groups),
              envs |-> processItemsToRemoveLocalized(envs),
              err |-> "nil", panic |-> FALSE]
    ELSE IF ~body.elems[i].ok
        THEN [groups |-> Some(groups), envs |-> Some(envs),
              err |-> "decodeElementError", panic |-> FALSE]
    ELSE IF body.elems[i].kind = "group"
        THEN CompsLoop(body, i + 1, Append(groups, body.elems[i]), envs)
    ELSE CompsLoop(body, i + 1, groups, Append(envs, body.elems[i]))

\* ParseCompsXML(body)
ParseCompsXML(body) ==
    IF ~body.read
        THEN [groups |-> Some(<<>>), envs |-> Some(<<>>),
              err |-> "io.reader read failure", panic |-> FALSE]
        ELSE CompsLoop(body, 1, <<>>, <<>>)

\* the bytes of comps.xml that io.ReadAll reads: <comps></comps> around the
\* elements; an element is its tag pair, <id>x</id> and a tag pair with a
\* word for every name, description and packagereq
ElemBytes(el) ==
    (IF el.kind = "group" THEN 15 ELSE 27) + 10
        + 15 * Len(el.Name) + 30 * Len(el.Description)
        + 28 * Len(el.PackageList)

RECURSIVE ElemsBytes(_)
ElemsBytes(elems) ==
    IF elems = <<>> THEN 0 ELSE ElemBytes(Head(elems)) + ElemsBytes(Tail(elems))

CompsBytes(body) == 15 + ElemsBytes(body.elems)

(***************************************************************************)
(* modules.yaml: a body is [magic, clen, hdrOK, docs, rerr]; a document is *)
(* [document, yaml, map, name]: yaml = FALSE when yaml.Decode fails on it, *)
(* map = FALSE when mapstructure cannot decode it.  rerr is the number of  *)
(* documents the reader yields before its Read starts returning an error   *)
(* other than io.EOF (a cancelled request, a broken connection), -1 for a  *)
(* stream that ends with io.EOF.                                           *)
(***************************************************************************)
\* ParseCompressedData(reader): the decompressing reader for the sniffed
\* kind; the gzip and xz constructors read the stream header
ParseCompressedData(body) ==
    LET kind == Match(Peek(body).header) IN
    IF NewReader(kind, body).err # "nil"
        THEN [reader |-> Nil, err |-> NewReader(kind, body).err]
        ELSE [reader |-> Some(kind), err |-> "nil"]

\* ExtractIfCompressed(reader): the reader to decode from, "plain" for the
\* buffered reader itself
ExtractIfCompressed(body) ==
    IF Peek(body).err # "nil" THEN [reader |-> Nil, err |-> Peek(body).err]
    ELSE IF Match(Peek(body).header) \in {"gz", "zst", "xz"}
        THEN ParseCompressedData(body)
        ELSE [reader |-> Some("plain"), err |-> "nil"]

\* the loop of parseModuleMDs over the documents of the stream
RECURSIVE ModuleLoopKeepsEarlier(_, _, _)
ModuleLoopKeepsEarlier(docs, i, moduleMDs) ==
    IF i > Len(docs) THEN [val |-> Some(moduleMDs), err |-> "nil", steps |-> i]
    ELSE IF ~docs[i].yaml
        THEN [val |-> Some(moduleMDs), err |-> "error decoding streams",
              steps |-> i]
    ELSE IF docs[i].document = "modulemd" THEN
        IF ~docs[i].map
            THEN [val |-> Some(moduleMDs), err |-> "error decoding map",
                  steps |-> i]
        ELSE ModuleLoopKeepsEarlier(docs, i + 1,
                Append(moduleMDs, [Document |-> "modulemd", Name |-> docs[i].name]))
    ELSE ModuleLoopKeepsEarlier(docs, i + 1, moduleMDs)
RECURSIVE ModuleLoopKeepsAll(_, _, _)
ModuleLoopKeepsAll(docs, i, moduleMDs) ==
    IF i > Len(docs) THEN [val |-> Some(moduleMDs), err |-> "nil", steps |-> i]
    ELSE IF ~docs[i].yaml THEN [val |-> Nil, err |-> "error decoding streams",
              steps |-> i]
    ELSE IF ~docs[i].map THEN [val |-> Nil, err |-> "error decoding map",
                  steps |-> i]
    ELSE ModuleLoopKeepsAll(docs, i + 1,
            Append(moduleMDs, [Document |-> docs[i].document,
                               Name |-> docs[i].name]))
RECURSIVE ModuleLoop(_, _, _)
ModuleLoop(docs, i, moduleMDs) ==
    IF i > Len(docs) THEN [val |-> Some(moduleMDs), err |-> "nil", steps |-> i]
    ELSE IF ~docs[i].yaml THEN [val |-> Nil, err |-> "error decoding streams",
              steps |-> i]
    ELSE IF docs[i].document = "modulemd" THEN
        IF ~docs[i].map THEN [val |-> Nil, err |-> "error decoding map",
                  steps |-> i]
        ELSE ModuleLoop(docs, i + 1,
                Append(moduleMDs, [Document |-> "modulemd", Name |-> docs[i].name]))
    ELSE ModuleLoop(docs, i + 1, moduleMDs)

\* the bytes of "document: <kind>", and of "\ndata:\n  name: n" when the
\* document has a name
YAMLBytes(doc) ==
    (CASE doc.document = "modulemd" -> 18
       [] doc.document = "modulemd-defaults" -> 27
       [] OTHER -> 11)
    + (IF doc.name = "" THEN 0 ELSE 17)

\* documents are separated by "---\n"
RECURSIVE StreamBytes(_)
StreamBytes(docs) ==
    IF docs = <<>> THEN 0
    ELSE YAMLBytes(Head(docs)) + (IF Len(docs) > 1 THEN 4 ELSE 0)
            + StreamBytes(Tail(docs))

\* a read error of the stream surfaces as the error of the decoder.Decode
\* that runs into it
ReadError == [document |-> "", yaml |-> FALSE, map |-> FALSE, name |-> ""]

\* what decoder.Decode meets, call by call, until the stream ends
Decodes(body) ==
    IF body.rerr < 0 \/ body.rerr > Len(body.docs) THEN body.docs
    ELSE SubSeq(body.docs, 1, body.rerr) \o <<ReadError>>

\* parseModuleMDs(body); a zstd stream with a broken header fails at the
\* first read of the YAML decoder.  steps: the calls of decoder.Decode
parseModuleMDs(body) ==
    LET x == ExtractIfCompressed(body) IN
    IF x.err # "nil"
        THEN [val |-> Some(<<>>), err |-> "error extracting compressed streams",
              steps |-> 0]
    ELSE IF x.reader.v = "zst" /\ ~body.hdrOK
        THEN [val |-> Nil, err |-> "error decoding streams", steps |-> 1]
    ELSE ModuleLoop(Decodes(body), 1, <<>>)

(***************************************************************************)
(* The facade operations.  Each takes the repository and the exchanges the *)
(* client would answer with, and returns the repository after the call,    *)
(* the returned (value, status, error), the URLs it issued a GET for,      *)
(* `inner`: the error of the r.Repomd() it called ("none": not called),    *)
(* `decoded`: the bytes of artifact content that a successful decode read  *)
(* to produce the value (0 when no artifact was decoded), and `unclosed`:  *)
(* the response bodies it obtained and has not closed when it returns      *)
(* (0 where resp.Body.Close() is deferred right after the GET).            *)
(***************************************************************************)
Ret(rr, val, status, err, reqs, inner) ==
    [r |-> rr, val |-> val, status |-> status, err |-> err, reqs |-> reqs,
     inner |-> inner, panic |-> FALSE, decoded |-> 0, unclosed |-> 0]

\* the decompressed bytes that ParseCompressedXMLData reads of a body
CatalogBytes(body, maxSize) ==
    LimitReader(Underlying(Match(Peek(body).header), body), maxSize).n

\* func (r *Repository) Clear()
ClearKeepsPackages(rr) ==
    [rr EXCEPT !.repomd = Nil, !.repomdSignature = Nil,
               !.packageGroups = Nil, !.environments = Nil]
Clear(rr) ==
    [rr EXCEPT !.repomd = Nil, !.packages = Nil, !.repomdSignature = Nil,
               !.packageGroups = Nil, !.environments = Nil]

\* func (r *Repository) Configure(settings YummySettings)
ConfigureReplacesAll(rr, settings) == Clear([rr EXCEPT !.settings = settings])
ConfigureDropsRepomdOnly(rr, settings) ==
    LET c1 == IF ~settings.Client.isNil THEN settings.Client ELSE rr.settings.Client
        c2 == IF c1.isNil THEN Some("DefaultClient") ELSE c1
        u  == IF ~settings.URL.isNil THEN settings.URL ELSE rr.settings.URL
    IN  [rr EXCEPT !.settings.Client = c2, !.settings.URL = u, !.repomd = Nil]
Configure(rr, settings) ==
    LET c1 == IF ~settings.Client.isNil THEN settings.Client ELSE rr.settings.Client
        c2 == IF c1.isNil THEN Some("DefaultClient") ELSE c1
        u  == IF ~settings.URL.isNil THEN settings.URL ELSE rr.settings.URL
    IN  Clear([rr EXCEPT !.settings.Client = c2, !.settings.URL = u])

\* func NewRepository(settings YummySettings) (Repository, error)
NewRepository(settings) ==
    IF settings.URL.isNil THEN [r |-> Nil, err |-> "url cannot be nil"]
    ELSE [r |-> [settings |->
                    [Client |-> IF settings.Client.isNil
                                    THEN Some("DefaultClient") ELSE settings.Client,
                     URL |-> settings.URL,
                     MaxXmlSize |-> IF settings.MaxXmlSize.isNil
                                    THEN Some(DefaultMaxXmlSize)
                                    ELSE settings.MaxXmlSize],
                 packages |-> Nil, repomdSignature |-> Nil, repomd |-> Nil,
                 packageGroups |-> Nil, environments |-> Nil, moduleMDs |-> Nil],
          err |-> "nil"]

\* Repomd() past the cache check: the URL, the GET, the status, the parse
RepomdFetch(rr, resp) ==
    LET u == getRepomdURL(rr) IN
    IF u.err # "nil"
        THEN Ret(rr, Nil, 0, "Error parsing Repomd URL", <<>>, "none")
    ELSE IF resp.err
        THEN Ret(rr, Nil, erroredStatusCode(resp), "GET error", <<u.url.v>>, "none")
    ELSE IF resp.status # StatusOK
        THEN Ret(rr, Nil, resp.status, "Cannot fetch", <<u.url.v>>, "none")
    ELSE IF ParseRepomdXML(resp.body).err # "nil"
        THEN Ret(rr, Nil, resp.status, "Error parsing repomd.xml", <<u.url.v>>, "none")
    ELSE Ret([rr EXCEPT !.repomd = Some(ParseRepomdXML(resp.body).val)],
             Some(ParseRepomdXML(resp.body).val), resp.status, "nil",
             <<u.url.v>>, "none")

\* func (r *Repository) Repomd() (*Repomd, int, error)
RepomdStoresOnError(rr, resp) ==
    LET c == IF ~rr.repomd.isNil THEN Ret(rr, rr.repomd, 0, "nil", <<>>, "none")
             ELSE RepomdFetch(rr, resp)
    IN  IF c.err # "nil" /\ c.reqs # <<>>
            THEN [c EXCEPT !.r.repomd = Some(EmptyRepomd)]
            ELSE c
Repomd(rr, resp) ==
    IF ~rr.repomd.isNil THEN Ret(rr, rr.repomd, 0, "nil", <<>>, "none")
    ELSE RepomdFetch(rr, resp)

\* func (r *Repository) Packages() ([]Package, int, error)
Packages(rr, respRepomd, resp) ==
    IF ~rr.packages.isNil THEN Ret(rr, rr.packages, 0, "nil", <<>>, "none")
    ELSE
    LET m == Repomd(rr, respRepomd) IN
    IF m.err # "nil"
        THEN Ret(m.r, Nil, 0, "error parsing repomd.xml", m.reqs, m.err)
    ELSE LET u == getPrimaryURL(m.r) IN
    IF u.err # "nil"
        THEN Ret(m.r, Nil, 0, "Error getting primary URL", m.reqs, m.err)
    ELSE LET q == Append(m.reqs, u.url.v) IN
    IF resp.err
        THEN Ret(m.r, Nil, erroredStatusCode(resp), "GET error", q, m.err)
    ELSE IF resp.status # StatusOK
        THEN Ret(m.r, Nil, resp.status, "Cannot fetch", q, m.err)
    ELSE LET o == ParseCompressedXMLData(resp.body, m.r.settings.MaxXmlSize.v) IN
    IF o.err # "nil"
        THEN Ret(m.r, Nil, resp.status, o.err, q, m.err)
    ELSE [Ret([m.r EXCEPT !.packages = o.result], o.result, resp.status, "nil",
              q, m.err)
            EXCEPT !.decoded = CatalogBytes(resp.body, m.r.settings.MaxXmlSize.v)]

\* func (r *Repository) PackageGroups() ([]PackageGroup, int, error)
PackageGroups(rr, respRepomd, resp) ==
    IF ~rr.packageGroups.isNil
        THEN Ret(rr, rr.packageGroups, 0, "nil", <<>>, "none")
    ELSE
    LET m == Repomd(rr, respRepomd) IN
    IF m.err # "nil"
        THEN Ret(m.r, Nil, 0, "error parsing repomd.xml", m.reqs, m.err)
    ELSE LET u == getCompsURL(m.r) IN
    IF u.err # "nil"
        THEN Ret(m.r, Nil, 0, "error parsing Comps URL", m.reqs, m.err)
    ELSE LET q == Append(m.reqs, u.url.v) IN
    IF resp.err
        THEN Ret(m.r, Nil, erroredStatusCode(resp), "GET error", q, m.err)
    ELSE LET o == ParseCompsXML(resp.body) IN
    IF o.panic
        THEN [Ret(m.r, Nil, 0, "panic", q, m.err) EXCEPT !.panic = TRUE]
    ELSE IF o.err # "nil"
        THEN Ret(m.r, Nil, resp.status, "error parsing comps.xml", q, m.err)
    ELSE [Ret([m.r EXCEPT !.packageGroups = o.groups], o.groups, resp.status,
              "nil", q, m.err)
            EXCEPT !.decoded = CompsBytes(resp.body)]

\* func (r *Repository) Environments() ([]Environment, int, error)
Environments(rr, respRepomd, resp) ==
    IF ~rr.environments.isNil
        THEN Ret(rr, rr.environments, 0, "nil", <<>>, "none")
    ELSE
    LET m == Repomd(rr, respRepomd) IN
    IF m.err # "nil"
        THEN Ret(m.r, Nil, 0, "error parsing repomd.xml", m.reqs, m.err)
    ELSE LET u == getCompsURL(m.r) IN
    IF u.err # "nil"
        THEN Ret(m.r, Nil, 0, "error parsing Comps URL", m.reqs, m.err)
    ELSE LET q == Append(m.reqs, u.url.v) IN
    IF resp.err
        THEN Ret(m.r, Nil, erroredStatusCode(resp), "GET error", q, m.err)
    ELSE LET o == ParseCompsXML(resp.body) IN
    IF o.panic
        THEN [Ret(m.r, Nil, 0, "panic", q, m.err) EXCEPT !.panic = TRUE]
    ELSE IF o.err # "nil"
        THEN Ret(m.r, Nil, resp.status, "error parsing comps.xml", q, m.err)
    ELSE [Ret([m.r EXCEPT !.environments = o.envs], o.envs, resp.status,
              "nil", q, m.err)
            EXCEPT !.decoded = CompsBytes(resp.body)]

\* func (r *Repository) Signature() (*string, int, error): the body is
\* closed on the success path only, by the resp.Body.Close() before the
\* store; a response that comes with an error has its body closed already
Signature(rr, resp) ==
    IF ~rr.repomdSignature.isNil
        THEN Ret(rr, rr.repomdSignature, 0, "nil", <<>>, "none")
    ELSE
    LET u == getSignatureURL(rr) IN
    IF u.err # "nil" THEN Ret(rr, Nil, 0, u.err, <<>>, "none")
    ELSE IF resp.err
        THEN Ret(rr, Nil, erroredStatusCode(resp), "GET error", <<u.url.v>>, "none")
    ELSE IF resp.status < 200 \/ resp.status > 299
        THEN [Ret(rr, Nil, resp.status, "received http", <<u.url.v>>, "none")
                EXCEPT !.unclosed = 1]
    ELSE LET o == responseBodyToString(resp.body) IN
    IF o.err # "nil"
        THEN [Ret(rr, Nil, resp.status, o.err, <<u.url.v>>, "none")
                EXCEPT !.unclosed = 1]
    ELSE Ret([rr EXCEPT !.repomdSignature = o.val], o.val, resp.status, "nil",
             <<u.url.v>>, "none")

\* func (r *Repository) ModuleMDs(ctx) ([]ModuleMD, int, error)
ModuleMDs(rr, respRepomd, resp) ==
    IF ~rr.moduleMDs.isNil THEN Ret(rr, rr.moduleMDs, 200, "nil", <<>>, "none")
    ELSE
    LET m == Repomd(rr, respRepomd) IN
    IF m.err # "nil"
        THEN Ret(m.r, Nil, 0, "error parsing repomd.xml", m.reqs, m.err)
    ELSE LET u == getModulesURL(m.r) IN
    IF u.err # "nil"
        THEN Ret(m.r, Nil, 0, "error parsing modules md URL", m.reqs, m.err)
    ELSE IF ~u.url.isNil THEN
        LET q == Append(m.reqs, u.url.v) IN
        IF resp.err
            THEN Ret(m.r, Nil, erroredStatusCode(resp), "GET error", q, m.err)
        ELSE LET o == parseModuleMDs(resp.body) IN
        IF o.err # "nil"
            THEN Ret(m.r, Nil, resp.status, "error parsing comps.xml", q, m.err)
        ELSE [Ret(m.r, o.val, resp.status, "nil", q, m.err)
                EXCEPT !.decoded = StreamBytes(resp.body.docs)]
    ELSE Ret([m.r EXCEPT !.moduleMDs = Nil], Nil, 0, "nil", m.reqs, m.err)

(***************************************************************************)
(* What the server may answer.                                             *)
(***************************************************************************)
DataEntry(t, href) == [Type |-> t, Href |-> href]

RepomdBodies ==
    {[read |-> TRUE, xml |-> TRUE, raw |-> "repomd-full", Revision |-> "1",
      Data |-> <<DataEntry("primary", "repodata/primary.xml.gz"),
                 DataEntry("group", "repodata/comps.xml"),
                 DataEntry("modules", "repodata/modules.yaml.gz")>>],
     [read |-> TRUE, xml |-> TRUE, raw |-> "repomd-bare", Revision |-> "2",
      Data |-> <<DataEntry("other", "repodata/other.xml.gz")>>],
     [read |-> TRUE, xml |-> FALSE, raw |-> "repomd-broken", Revision |-> "",
      Data |-> <<>>],
     [read |-> FALSE, xml |-> TRUE, raw |-> "repomd-cut", Revision |-> "",
      Data |-> <<>>]}

RepomdResponses ==
    {NoResponse, RedirectRefused}
        \cup {Responded(st, b) : st \in {200}, b \in RepomdBodies}
        \cup {Responded(404, CHOOSE b \in RepomdBodies : ~b.xml)}

PrimaryBodies ==
    {Compress(GzMagic, [prolog |-> TRUE, items |-> <<"rpmA", "src">>, closed |-> TRUE,
                          tail |-> TRUE]),
     Compress(ZstdMagic, [prolog |-> FALSE, items |-> <<>>, closed |-> TRUE,
                          tail |-> FALSE]),
     Compress(PlainMagic, [prolog |-> TRUE, items |-> <<"rpmA">>, closed |-> TRUE,
                           tail |-> FALSE]),
     Compress(XzMagic, [prolog |-> TRUE, items |-> <<"rpmB">>, closed |-> FALSE,
                        tail |-> FALSE])}

PrimaryResponses ==
    {NoResponse}
        \cup {Responded(200, b) : b \in PrimaryBodies}
        \cup {Responded(404, CHOOSE b \in PrimaryBodies : b.magic = PlainMagic)}

Group(id, names) ==
    [kind |-> "group", ok |-> TRUE, ID |-> id, Name |-> names,
     Description |-> names, PackageList |-> <<"pkg">>]
Environment(id, names) ==
    [kind |-> "environment", ok |-> TRUE, ID |-> id, Name |-> names,
     Description |-> names, PackageList |-> <<>>]

CompsBodies ==
    {[read |-> TRUE, closed |-> TRUE,
      elems |-> <<Group("g1", <<"en", "de">>), Environment("e1", <<"en", "fr">>)>>],
     [read |-> TRUE, closed |-> TRUE, elems |-> <<>>],
     [read |-> TRUE, closed |-> FALSE, elems |-> <<Group("g1", <<"en">>)>>],
     [read |-> TRUE, closed |-> TRUE, elems |-> <<Group("g2", <<>>)>>],
     [read |-> FALSE, closed |-> TRUE, elems |-> <<>>]}

CompsResponses ==
    {NoResponse}
        \cup {Responded(200, b) : b \in CompsBodies}
        \cup {Responded(404, CHOOSE b \in CompsBodies : b.read /\ b.closed /\ b.elems = <<>>)}

ModuleDoc(kind, yaml, map, name) ==
    [document |-> kind, yaml |-> yaml, map |-> map, name |-> name]

ModulesBodies ==
    {[magic |-> GzMagic, clen |-> PeekLen, hdrOK |-> TRUE, rerr |-> -1,
      docs |-> <<ModuleDoc("modulemd", TRUE, TRUE, "m1"),
                 ModuleDoc("modulemd-defaults", TRUE, TRUE, "d1")>>],
     [magic |-> PlainMagic, clen |-> PeekLen, hdrOK |-> TRUE, rerr |-> -1,
      docs |-> <<ModuleDoc("modulemd", FALSE, TRUE, "m2")>>],
     [magic |-> PlainMagic, clen |-> PeekLen - 1, hdrOK |-> TRUE, rerr |-> -1,
      docs |-> <<>>]}

ModulesResponses ==
    {NoResponse} \cup {Responded(200, b) : b \in ModulesBodies}

SignatureBodies ==
    {[read |-> TRUE, text |-> "sig"], [read |-> TRUE, text |-> ""],
     [read |-> FALSE, text |-> ""]}

SignatureResponses ==
    {NoResponse}
        \cup {Responded(200, b) : b \in SignatureBodies}
        \cup {Responded(st, [read |-> TRUE, text |-> "not found"]) : st \in {204, 404}}

Clients == {Nil, Some("c1")}
SettingsURLs == {Nil} \cup {Some(u) : u \in URLs}
SizeSettings == {Nil, Some(3)}
YummySettings == [Client : Clients, URL : SettingsURLs, MaxXmlSize : SizeSettings]

FetchOps ==
    {"Repomd", "Packages", "PackageGroups", "Environments", "Signature", "ModuleMDs"}

NoMemo == [op \in FetchOps |-> Nil]

Slots ==
    {"repomd", "packages", "packageGroups", "environments", "repomdSignature",
     "moduleMDs"}

Populated(rr) == {sl \in Slots : ~rr[sl].isNil}

\* The record of a call that returns nothing.  dropped: the slots that held
\* a value when the latest Clear or Configure ran, kept for the one call
\* that follows it; first: the call follows a Clear or Configure directly;
\* arg: the settings a Configure was called with.
Returned(op, dropped) ==
    [op |-> op, val |-> Nil, status |-> 0, err |-> "nil", reqs |-> <<>>,
     inner |-> "none", panic |-> FALSE, decoded |-> 0, unclosed |-> 0,
     arg |-> Nil, prior |-> Nil,
     dropped |-> dropped, first |-> FALSE]

Init ==
    /\ \E st \in YummySettings :
        /\ NewRepository(st).err = "nil"
        /\ r = NewRepository(st).r
    /\ last = Returned("NewRepository", {})
    /\ memo = NoMemo
    /\ pin = Nil
    /\ pout = NotRun

\* a fetch operation returned c: record it, and remember a nil-error result
Fetched(op, c) ==
    /\ r' = c.r
    /\ last' = [op |-> op, val |-> c.val, status |-> c.status, err |-> c.err,
                reqs |-> c.reqs, inner |-> c.inner, panic |-> c.panic,
                decoded |-> c.decoded, unclosed |-> c.unclosed,
                arg |-> Nil, prior |-> memo[op],
                dropped |-> IF last.op \in {"Clear", "Configure"}
                                THEN last.dropped ELSE {},
                first |-> last.op \in {"Clear", "Configure"}]
    /\ memo' = IF c.err = "nil" THEN [memo EXCEPT ![op] = Some(c.val)] ELSE memo
    /\ UNCHANGED <<pin, pout>>

DoConfigure ==
    \E st \in YummySettings :
        /\ r' = Configure(r, st)
        /\ last' = [Returned("Configure", Populated(r)) EXCEPT !.arg = Some(st)]
        /\ memo' = NoMemo
        /\ UNCHANGED <<pin, pout>>

DoClear ==
    /\ r' = Clear(r)
    /\ last' = Returned("Clear", Populated(r))
    /\ memo' = NoMemo
    /\ UNCHANGED <<pin, pout>>

\* The exchanges a call can consume: the repomd exchange when the slot is
\* empty, the artifact's exchange when the repomd is at hand.
RepomdAnswers(rr) ==
    IF rr.repomd.isNil THEN RepomdResponses ELSE {NoResponse}
ArtifactAnswers(rr, m, S) ==
    IF Repomd(rr, m).err = "nil" THEN S ELSE {NoResponse}

DoRepomd ==
    \E resp \in RepomdAnswers(r) : Fetched("Repomd", Repomd(r, resp))

DoPackages ==
    \E m \in RepomdAnswers(r) :
        \E resp \in ArtifactAnswers(r, m, PrimaryResponses) :
            Fetched("Packages", Packages(r, m, resp))

DoPackageGroups ==
    \E m \in RepomdAnswers(r) :
        \E resp \in ArtifactAnswers(r, m, CompsResponses) :
            Fetched("PackageGroups", PackageGroups(r, m, resp))

DoEnvironments ==
    \E m \in RepomdAnswers(r) :
        \E resp \in ArtifactAnswers(r, m, CompsResponses) :
            Fetched("Environments", Environments(r, m, resp))

DoSignature ==
    \E resp \in SignatureResponses : Fetched("Signature", Signature(r, resp))

DoModuleMDs ==
    \E m \in RepomdAnswers(r) :
        \E resp \in ArtifactAnswers(r, m, ModulesResponses) :
            Fetched("ModuleMDs", ModuleMDs(r, m, resp))

Next ==
    \/ DoConfigure
    \/ DoClear
    \/ DoRepomd
    \/ DoPackages
    \/ DoPackageGroups
    \/ DoEnvironments
    \/ DoSignature
    \/ DoModuleMDs

Spec == Init /\ [][Next]_vars

(***************************************************************************)
(* Claims about the facade (specification Spec).                           *)
(***************************************************************************)
MemoizedOps == {"Repomd", "Packages", "Signature", "PackageGroups", "Environments"}
DependentOps == {"Packages", "PackageGroups", "Environments", "ModuleMDs"}
ClearingOps == {"Clear", "Configure"}

\* the last call came back from the operation's cache slot
FromCache == last.err = "nil" /\ last.reqs = <<>> /\ last.val = last.prior.v

\* C1: for Repomd, Packages, Signature, PackageGroups and Environments, once
\* a call has returned with a nil error (an empty decoded result included),
\* a later call with no Clear or Configure in between returns the same value
\* with a nil error and issues no HTTP request.
C1_MemoizedAfterSuccess ==
    last.op \in MemoizedOps /\ ~last.prior.isNil => FromCache

\* C2: after ModuleMDs has fetched and decoded module streams and returned
\* them with a nil error, a second ModuleMDs call with no Clear or Configure
\* in between returns the memoized records and issues no HTTP request.
C2_ModuleMDsMemoized ==
    last.op = "ModuleMDs" /\ ~last.prior.isNil /\ ~last.prior.v.isNil
        => FromCache

\* C3: after Clear or Configure every cache slot is empty, and the fetch
\* call that follows it (on a base URL that url.Parse accepts) issues a new
\* HTTP request; whatever the URL, it never hands back an earlier value
\* without one.
C3_ClearEmptiesEverySlot ==
    /\ last.op \in ClearingOps => Populated(r) = {}
    /\ last.op \in FetchOps /\ last.first =>
        /\ URLParse(r.settings.URL.v) = "nil" => last.reqs # <<>>
        /\ last.reqs = <<>> => last.val.isNil /\ last.err # "nil"

\* C3 witness: Packages is the first call after a Clear that dropped a
\* populated packages slot, and it fetched the repomd and the primary again.
C3_Witness ==
    /\ last.op = "Packages" /\ last.first
    /\ {"repomd", "packages", "repomdSignature"} \subseteq last.dropped
    /\ Len(last.reqs) = 2 /\ last.err = "nil"

\* C4: when the repomd fetch made by Packages, PackageGroups, Environments
\* or ModuleMDs fails on an empty repomd slot, the call returns a nil value
\* and a non-nil error, issues no GET but the one for the repomd, populates
\* no slot, and the repomd slot and the slots that depend on it are empty.
C4_RepomdFailurePropagates ==
    [][(last'.op \in DependentOps /\ last'.inner \notin {"none", "nil"}) =>
            /\ r.repomd.isNil
            /\ last'.val.isNil /\ last'.err # "nil"
            /\ \A i \in 1..Len(last'.reqs) :
                    last'.reqs[i].path = "/repodata/repomd.xml"
            /\ Len(last'.reqs) <= 1
            /\ r' = r
            /\ Populated(r') \subseteq {"repomdSignature"}]_vars

\* C4 witness: PackageGroups failed on a repomd that could not be parsed,
\* with the signature slot populated before and after.
C4_Witness ==
    /\ last.op = "PackageGroups" /\ last.inner = "Error parsing repomd.xml"
    /\ Len(last.reqs) = 1 /\ ~r.repomdSignature.isNil

(***************************************************************************)
(* Claims about ParseCompressedXMLData (specification SpecParse).          *)
(***************************************************************************)
CompressedMagics == {GzMagic, XzMagic, ZstdMagic}

\* the stream starts with a supported signature and has its 20 bytes
Sniffable(b) == b.clen >= PeekLen /\ b.magic \in CompressedMagics
\* ... and is a sound compressed stream
Sound(b) == Sniffable(b) /\ b.hdrOK /\ b.derr = -1

Ceiling == Max(pin.maxSize, 0)

\* the compressed stream breaks off before the ceiling is reached
Damaged(b) == b.derr >= 0 /\ b.derr < Ceiling

\* the bytes of the document that reach the tokenizer
Readable(b) ==
    Min(Ceiling, IF b.derr >= 0 THEN b.derr ELSE DocBytes(b.doc))

\* no element is open at byte n (every start tag within the first n bytes
\* has its end tag there too) and byte n does not fall inside markup
CutOutsideElements(lex, n) ==
    LET Within == {i \in 1..Len(lex) : i * LexLen <= n}
        Starts == {i \in Within : lex[i] = "M" \/ IsPackageStart(lex[i])}
        Ends == {i \in Within : lex[i] \in {"m", "p"}}
    IN  /\ Cardinality(Starts) = Cardinality(Ends)
        /\ \A i \in 1..Len(lex) :
                (i - 1) * LexLen < n /\ n < i * LexLen => lex[i] = "T"

\* the records of the rpm packages among the items, in document order
RECURSIVE RpmRecords(_)
RpmRecords(its) ==
    IF its = <<>> THEN <<>>
    ELSE (CASE Head(its) = "rpmA" -> <<[Type |-> "rpm", Name |-> "a"]>>
            [] Head(its) = "rpmB" -> <<[Type |-> "rpm", Name |-> "b"]>>
            [] OTHER -> <<>>) \o RpmRecords(Tail(its))

IsPrefixSeq(p, q) == Len(p) <= Len(q) /\ SubSeq(q, 1, Len(p)) = p

\* C5 as stated: a decompressed stream longer than maxSize is never an
\* error, wherever the cutoff falls: the records parsed before the cutoff
\* come back with a nil error.  (The code returns a nil error only when no
\* element is open at the cutoff: before the root element opens, or after
\* it has closed.)
C5_CeilingNeverAnError ==
    pout.done /\ Sound(pin.body) /\ WellFormed(pin.body.doc)
            /\ pin.maxSize < DocBytes(pin.body.doc)
        => pout.err = "nil" /\ pout.result = Some(pout.acc)

C7_ErrorKeepsParsedRecords ==
    pout.done /\ Sound(pin.body) /\ pin.maxSize >= DocBytes(pin.body.doc)
            /\ pout.built /\ pout.err # "nil"
        => pout.result = Some(pout.acc)

\* C8: a well-formed catalog decodes to exactly one record per package
\* element of type rpm, in document order; packages of another type are
\* left out wherever they stand.
C8_OneRecordPerRpmPackage ==
    pout.done /\ Sound(pin.body) /\ WellFormed(pin.body.doc)
            /\ pin.maxSize >= DocBytes(pin.body.doc)
        => pout.err = "nil"
            /\ pout.result = Some(RpmRecords(pin.body.doc.items))

\* C8 witness: rpm, srpm, rpm decodes to the two rpm records in order.
C8_Witness ==
    /\ pout.done /\ Sound(pin.body)
    /\ pin.body.doc.items = <<"rpmA", "src", "rpmB">> /\ pin.body.doc.closed
    /\ pin.maxSize >= DocBytes(pin.body.doc)
    /\ pout.result = Some(<<[Type |-> "rpm", Name |-> "a"],
                            [Type |-> "rpm", Name |-> "b"]>>)

C10_UnknownSignatureRejected ==
    pout.done /\ pin.body.clen >= PeekLen
            /\ (\A m \in CompressedMagics : ~IsPrefix(m, pin.body.magic))
        => /\ pout.err = "invalid file type"
           /\ pout.result = Some(<<>>)
           /\ ~pout.built /\ pout.tokens = 0

\* C10 witness: gzip's id bytes with another compression method in front of
\* a catalog of rpm packages: rejected.
C10_Witness ==
    /\ pout.done /\ pin.body.magic = GzLikeMagic /\ pin.body.clen >= PeekLen
    /\ RpmRecords(pin.body.doc.items) # <<>> /\ WellFormed(pin.body.doc)
    /\ pout.err = "invalid file type"

\* C19 as stated: a primary catalog that is not compressed is accepted by
\* ParseCompressedXMLData and decodes to the same records, with the same
\* error/no-error outcome, as the gzip, xz or zstd form of the same content.
C19_UncompressedCatalogAccepted ==
    pout.done /\ pin.body.magic = PlainMagic /\ pin.body.clen >= PeekLen
            /\ pin.body.derr = -1 =>
        \A m \in CompressedMagics :
            LET o == ParseCompressedXMLData(Compress(m, pin.body.doc),
                                            pin.maxSize)
            IN  o.result = pout.result /\ (o.err = "nil") = (pout.err = "nil")

\* C20: when fewer than 20 bytes are available from the stream (the empty
\* stream included), ParseCompressedXMLData returns the read error and no
\* record, and ExtractIfCompressed the read error and no reader; the stream
\* is not classified (the outcome is the same for every signature) and
\* nothing of it is decompressed or tokenized.
C20_ShortStreamIsAReadError ==
    pout.done /\ pin.body.clen < PeekLen =>
        /\ pout.err = "EOF" /\ pout.result = Some(<<>>)
        /\ ~pout.built /\ pout.tokens = 0
        /\ ExtractIfCompressed(pin.body) = [reader |-> Nil, err |-> "EOF"]

\* C20 witness: an empty stream, and a 19-byte stream with gzip's signature.
C20_Witness ==
    /\ pout.done /\ pout.err = "EOF" /\ pout.result = Some(<<>>)
    /\ \/ pin.body.clen = 0
       \/ pin.body.clen = PeekLen - 1 /\ pin.body.magic = GzMagic

(***************************************************************************)
(* ParseRepomdXML on its own (specification SpecRepomdXML).  A body is the *)
(* bytes the reader delivers (raw), whether io.ReadAll ends without error  *)
(* (read), whether xml.Unmarshal accepts the bytes (xml) and the fields    *)
(* Unmarshal has filled in by the time it returns (Data, Revision).        *)
(***************************************************************************)
MaxRaw == 2

\* '<', a newline and a byte that is not valid UTF-8
RawBytes == {60, 10, 255}

DataLists ==
    {<<>>,
     <<DataEntry("primary", "repodata/primary.xml.gz")>>,
     <<DataEntry("primary", "repodata/primary.xml.gz"),
       DataEntry("group", "repodata/comps.xml")>>}

InitRepomdXML ==
    /\ \E rd \in BOOLEAN, x \in BOOLEAN, raw \in SeqsUpTo(RawBytes, MaxRaw),
          dl \in DataLists, rev \in {"", "1"} :
            pin = [body |-> [read |-> rd, xml |-> x, raw |-> raw,
                             Data |-> dl, Revision |-> rev]]
    /\ pout = NotRun
    /\ r = Nil /\ last = Nil /\ memo = Nil

DoParseRepomdXML ==
    /\ ~pout.done
    /\ pout' = [done |-> TRUE, val |-> ParseRepomdXML(pin.body).val,
                err |-> ParseRepomdXML(pin.body).err]
    /\ UNCHANGED <<r, last, memo, pin>>

NextRepomdXML == DoParseRepomdXML

SpecRepomdXML == InitRepomdXML /\ [][NextRepomdXML]_vars

\* C11: on success ParseRepomdXML returns the decoded Data list and Revision
\* with RepomdString holding exactly the bytes read from the body; on a read
\* or unmarshal failure it returns an empty Repomd, with no raw text, and a
\* non-nil error.
C11_RepomdStringIsTheBody ==
    pout.done =>
        IF pin.body.read /\ pin.body.xml
        THEN /\ pout.err = "nil"
             /\ ~pout.val.RepomdString.isNil
             /\ pout.val.RepomdString.v = pin.body.raw
             /\ pout.val.Data = pin.body.Data
             /\ pout.val.Revision = pin.body.Revision
        ELSE /\ pout.err # "nil"
             /\ pout.val.RepomdString.isNil
             /\ pout.val.Data = <<>> /\ pout.val.Revision = ""

\* C11 witness: a body that is read in full but rejected by xml.Unmarshal
\* after a data entry was decoded comes back as the empty Repomd.
C11_Witness ==
    /\ pout.done /\ pin.body.read /\ ~pin.body.xml
    /\ pin.body.Data # <<>> /\ Len(pin.body.raw) = MaxRaw
    /\ pout.err = "xml.Unmarshal failure" /\ pout.val = EmptyRepomd

(***************************************************************************)
(* Claims about the facade's error outcomes (specification Spec).          *)
(***************************************************************************)
Outcome(c) == <<c.val, c.status, c.err>>

NoEntryOfType(rr, t) ==
    /\ ~rr.repomd.isNil
    /\ \A i \in 1..Len(rr.repomd.v.Data) : rr.repomd.v.Data[i].Type # t

\* C12: when the repomd index has no primary entry, Packages returns an
\* outcome (value, status code, error) that differs from every outcome it
\* returns when the GET of the primary catalog fails with no response; it
\* issues no request for the catalog.
C12_MissingPrimaryIsNotATransportFailure ==
    last.op = "Packages" /\ NoEntryOfType(r, "primary") =>
        /\ last.val.isNil /\ last.err # "nil"
        /\ \A i \in 1..Len(last.reqs) : last.reqs[i].path = "/repodata/repomd.xml"
        /\ \A m \in RepomdResponses :
                LET t == Packages(Clear(r), m, NoResponse)
                IN  Len(t.reqs) = 2 => Outcome(t) # Outcome(last)

\* C12 witness: Packages fetched an index without a primary entry.
C12_Witness ==
    /\ last.op = "Packages" /\ NoEntryOfType(r, "primary")
    /\ Len(last.reqs) = 1 /\ last.err = "Error getting primary URL"
    /\ \E m \in RepomdResponses :
            /\ Len(Packages(Clear(r), m, NoResponse).reqs) = 2
            /\ Packages(Clear(r), m, NoResponse).err = "GET error"

\* C18 as stated: a facade operation that fails on a transport problem
\* returns the status code of the response when one was received, for the
\* artifact or for the repomd it depends on, and 0 only when no response
\* was received.  Here: the repomd GET of a dependent operation was
\* answered with a status other than 200.
C18_StatusOfTheResponseReceived ==
    last.op \in DependentOps /\ last.inner = "Cannot fetch" =>
        last.err # "nil" /\ last.status # 0

(***************************************************************************)
(* ParseCompsXML on its own (specification SpecComps): every comps.xml of  *)
(* up to MaxElems group and environment elements, each with zero, one or   *)
(* two names and descriptions (the second one a translation).              *)
(***************************************************************************)
MaxElems == 2

NameLists == {<<>>, <<"en">>, <<"en", "de">>}
DescriptionLists == {<<>>, <<"about">>, <<"about", "ueber">>}

CompsElems ==
    {[kind |-> k, ok |-> o, ID |-> IF k = "group" THEN "g" ELSE "e",
      Name |-> n, Description |-> d,
      PackageList |-> IF k = "group" THEN <<"pkg">> ELSE <<>>] :
        k \in {"group", "environment"}, o \in BOOLEAN,
        n \in NameLists, d \in DescriptionLists}

InitComps ==
    /\ \E rd \in BOOLEAN, cl \in BOOLEAN, es \in SeqsUpTo(CompsElems, MaxElems) :
            pin = [body |-> [read |-> rd, closed |-> cl, elems |-> es]]
    /\ pout = NotRun
    /\ r = Nil /\ last = Nil /\ memo = Nil

DoParseCompsXML ==
    /\ ~pout.done
    /\ pout' = [done |-> TRUE,
                groups |-> ParseCompsXML(pin.body).groups,
                envs |-> ParseCompsXML(pin.body).envs,
                err |-> ParseCompsXML(pin.body).err,
                panic |-> ParseCompsXML(pin.body).panic]
    /\ UNCHANGED <<r, last, memo, pin>>

NextComps == DoParseCompsXML

SpecComps == InitComps /\ [][NextComps]_vars

\* the elements of one kind, in document order
RECURSIVE OfKind(_, _)
OfKind(elems, k) ==
    IF elems = <<>> THEN <<>>
    ELSE (IF Head(elems).kind = k THEN <<Head(elems)>> ELSE <<>>)
            \o OfKind(Tail(elems), k)

\* the list returned for a kind: a nil slice is an empty list
ListOf(v) == IF v.isNil THEN <<>> ELSE v.v

\* record rec holds only the first name and description of element el
FirstOnly(rec, el) ==
    /\ Len(rec.Name) = 1 /\ Len(rec.Description) = 1
    /\ el.Name # <<>> /\ rec.Name[1] = el.Name[1]
    /\ el.Description # <<>> /\ rec.Description[1] = el.Description[1]
    /\ rec.ID = el.ID /\ rec.PackageList = el.PackageList

Stripped(recs, els) ==
    /\ Len(recs) <= Len(els)
    /\ \A i \in 1..Len(recs) : FirstOnly(recs[i], els[i])

\* C13 as stated: every group and environment that ParseCompsXML returns
\* holds exactly one name and one description, the first of its element,
\* with ID and PackageList unchanged.
C13_ReturnedRecordsAreStripped ==
    pout.done /\ ~pout.panic =>
        /\ Stripped(ListOf(pout.groups), OfKind(pin.body.elems, "group"))
        /\ Stripped(ListOf(pout.envs), OfKind(pin.body.elems, "environment"))

\* C13 amended: every group and environment that ParseCompsXML returns with
\* a nil error holds exactly one name and one description, the first of its
\* element in document order, with ID and PackageList unchanged, and every
\* group and environment of the document is returned.
C13_RecordsOfASuccessAreStripped ==
    pout.done /\ ~pout.panic /\ pout.err = "nil" =>
        /\ Stripped(ListOf(pout.groups), OfKind(pin.body.elems, "group"))
        /\ Stripped(ListOf(pout.envs), OfKind(pin.body.elems, "environment"))
        /\ Len(ListOf(pout.groups)) = Len(OfKind(pin.body.elems, "group"))
        /\ Len(ListOf(pout.envs)) = Len(OfKind(pin.body.elems, "environment"))

\* C13 witness: a group and an environment, each with a translated name and
\* description, come back with the first ones only.
C13_Witness ==
    /\ pout.done /\ pout.err = "nil" /\ ~pout.panic
    /\ Len(pin.body.elems) = 2
    /\ \A i \in 1..2 : /\ Len(pin.body.elems[i].Name) = 2
                       /\ Len(pin.body.elems[i].Description) = 2
    /\ Len(ListOf(pout.groups)) = 1 /\ Len(ListOf(pout.envs)) = 1
    /\ ListOf(pout.groups)[1].Name = <<"en">>
    /\ ListOf(pout.envs)[1].Description = <<"about">>

\* an element that decodes with no name or no description entry
Nameless(el) == el.ok /\ (el.Name = <<>> \/ el.Description = <<>>)

\* C22: a group or environment element with zero name entries (or zero
\* description entries) makes ParseCompsXML return a decode error: the call
\* does not panic in the localization stripping and returns no record with
\* an empty name or description list.
C22_ZeroNamesIsADecodeError ==
    pout.done /\ (\E i \in 1..Len(pin.body.elems) : Nameless(pin.body.elems[i])) =>
        /\ ~pout.panic
        /\ pout.err # "nil"
        /\ \A rec \in {ListOf(pout.groups)[i] : i \in 1..Len(ListOf(pout.groups))}
                    \cup {ListOf(pout.envs)[i] : i \in 1..Len(ListOf(pout.envs))} :
                rec.Name # <<>> /\ rec.Description # <<>>

(***************************************************************************)
(* parseModuleMDs and ExtractIfCompressed on their own (specification      *)
(* SpecModules): every stream of up to MaxDocs YAML documents, plain or    *)
(* compressed.  The length of the stream is computed from its documents.   *)
(***************************************************************************)
MaxDocs == 2

DocumentKinds == {"modulemd", "modulemd-defaults", "x"}

ModuleDocs ==
    {ModuleDoc(k, y, mp, n) :
        k \in DocumentKinds, y \in BOOLEAN, mp \in BOOLEAN, n \in {"", "n"}}

\* the bytes of the stream as the reader delivers them: a gzip member is at
\* least 20 bytes, an xz stream at least 32, a zstd frame at least 13
ModuleStream(magic, hdrOK, docs) ==
    [magic |-> magic, hdrOK |-> hdrOK, docs |-> docs, rerr |-> -1,
     clen |-> CASE magic = GzMagic -> 18 + Max(2, StreamBytes(docs))
                [] magic = XzMagic -> 32 + StreamBytes(docs)
                [] magic = ZstdMagic -> 13 + StreamBytes(docs)
                [] OTHER -> StreamBytes(docs)]

InitModules ==
    /\ \E m \in CompressedMagics \cup {PlainMagic}, h \in BOOLEAN,
          ds \in SeqsUpTo(ModuleDocs, MaxDocs) :
            pin = [body |-> ModuleStream(m, h, ds)]
    /\ pout = NotRun
    /\ r = Nil /\ last = Nil /\ memo = Nil

DoParseModuleMDs ==
    /\ ~pout.done
    /\ pout' = [done |-> TRUE, op |-> "parseModuleMDs",
                val |-> parseModuleMDs(pin.body).val,
                err |-> parseModuleMDs(pin.body).err]
    /\ UNCHANGED <<r, last, memo, pin>>

DoExtractIfCompressed ==
    /\ ~pout.done
    /\ pout' = [done |-> TRUE, op |-> "ExtractIfCompressed",
                val |-> ExtractIfCompressed(pin.body).reader,
                err |-> ExtractIfCompressed(pin.body).err]
    /\ UNCHANGED <<r, last, memo, pin>>

NextModules ==
    \/ DoParseModuleMDs
    \/ DoExtractIfCompressed

SpecModules == InitModules /\ [][NextModules]_vars

\* every document decodes, and the compressed framing is intact
WellFormedStream(b) ==
    /\ \A i \in 1..Len(b.docs) : b.docs[i].yaml /\ b.docs[i].map
    /\ b.magic \in CompressedMagics => b.hdrOK

\* the records of the modulemd documents, in stream order
RECURSIVE ModuleRecords(_)
ModuleRecords(docs) ==
    IF docs = <<>> THEN <<>>
    ELSE (IF Head(docs).document = "modulemd"
            THEN <<[Document |-> "modulemd", Name |-> Head(docs).name]>>
            ELSE <<>>) \o ModuleRecords(Tail(docs))

Parsed == pout.done /\ pout.op = "parseModuleMDs"

\* C14 as stated: a well-formed stream of N modulemd documents interleaved
\* with M documents of other kinds gives exactly the N records, in stream
\* order, with a nil error.
C14_OneRecordPerModulemd ==
    Parsed /\ WellFormedStream(pin.body) =>
        pout.err = "nil" /\ pout.val = Some(ModuleRecords(pin.body.docs))

\* C14 amended: a well-formed stream that is at least 20 bytes long as read
\* from the body gives exactly the N records of its modulemd documents, in
\* stream order, with a nil error, the documents of other kinds being
\* skipped; a stream shorter than 20 bytes gives an error and no record,
\* whatever it holds.
C14_OneRecordPerModulemdOfALongStream ==
    Parsed /\ WellFormedStream(pin.body) =>
        IF pin.body.clen >= PeekLen
        THEN pout.err = "nil" /\ pout.val = Some(ModuleRecords(pin.body.docs))
        ELSE pout.err # "nil" /\ pout.val = Some(<<>>)

\* C14 witness: a modulemd document between two of another kind.
C14_Witness ==
    /\ Parsed /\ WellFormedStream(pin.body) /\ pin.body.magic = ZstdMagic
    /\ Len(pin.body.docs) = 2
    /\ pin.body.docs[1].document = "modulemd-defaults"
    /\ pin.body.docs[2].document = "modulemd"
    /\ pout.err = "nil" /\ Len(pout.val.v) = 1

\* yaml.Decode or the map decoder rejects some document of the stream
DecodeFails(b) ==
    \E i \in 1..Len(b.docs) :
        ~b.docs[i].yaml \/ (b.docs[i].document = "modulemd" /\ ~b.docs[i].map)

\* C15: when decoding fails on any document of the stream, parseModuleMDs
\* returns a non-nil error and no record at all, never the records of the
\* documents decoded before the failure; every error return of the function
\* comes without records.
C15_NoRecordsOnError ==
    Parsed =>
        /\ DecodeFails(pin.body) => pout.err # "nil"
        /\ pout.err # "nil" => ListOf(pout.val) = <<>>

\* C15 witness: the second document fails after a modulemd was decoded.
C15_Witness ==
    /\ Parsed /\ pin.body.clen >= PeekLen /\ Len(pin.body.docs) = 2
    /\ pin.body.docs[1].document = "modulemd"
    /\ pin.body.docs[1].yaml /\ pin.body.docs[1].map
    /\ ~pin.body.docs[2].yaml
    /\ pout.err = "error decoding streams" /\ pout.val.isNil

(***************************************************************************)
(* FetchGPGKey (specification SpecGPGKey).  A key body is [read, text,     *)
(* armored]: armored = FALSE when openpgp.ReadArmoredKeyRing rejects the   *)
(* text.                                                                   *)
(***************************************************************************)
\* openpgp.ReadArmoredKeyRing(strings.NewReader(text))
ReadArmoredKeyRing(body) == IF body.armored THEN "nil" ELSE "openpgp error"

\* func FetchGPGKey(ctx, url, client) (*string, int, error); the condition
\* that guards the bad-key return tests err, which is nil at that point,
\* and not openpgpErr
FetchGPGKey(url, resp) ==
    IF URLParse(url) # "nil"
        THEN [val |-> Nil, status |-> 0, err |-> "error creating request"]
    ELSE IF resp.err THEN [val |-> Nil, status |-> 0, err |-> "client.Do error"]
    ELSE LET o == responseBodyToString(resp.body)
             openpgpErr == ReadArmoredKeyRing(resp.body)
         IN
    IF o.err # "nil" THEN [val |-> Nil, status |-> 0, err |-> o.err]
    ELSE IF (o.err = "nil" /\ resp.status < 200) \/ resp.status > 299
        THEN [val |-> Nil, status |-> resp.status, err |-> "received http"]
    ELSE IF o.err # "nil"
        THEN [val |-> Nil, status |-> resp.status, err |-> openpgpErr]
    ELSE [val |-> o.val, status |-> resp.status, err |-> "nil"]

KeyBodies ==
    [read : BOOLEAN, text : {"", "key", "<html>"}, armored : BOOLEAN]

KeyStatuses == {199, 200, 204, 299, 300, 404, 500}

KeyResponses ==
    {NoResponse, RedirectRefused}
        \cup {Responded(st, b) : st \in KeyStatuses, b \in KeyBodies}

InitGPGKey ==
    /\ \E u \in URLs, resp \in KeyResponses : pin = [url |-> u, resp |-> resp]
    /\ pout = NotRun
    /\ r = Nil /\ last = Nil /\ memo = Nil

DoFetchGPGKey ==
    /\ ~pout.done
    /\ pout' = [done |-> TRUE,
                val |-> FetchGPGKey(pin.url, pin.resp).val,
                status |-> FetchGPGKey(pin.url, pin.resp).status,
                err |-> FetchGPGKey(pin.url, pin.resp).err]
    /\ UNCHANGED <<r, last, memo, pin>>

NextGPGKey == DoFetchGPGKey

SpecGPGKey == InitGPGKey /\ [][NextGPGKey]_vars

\* C16 as stated: FetchGPGKey returns the key text only when the body parses
\* as an armored key ring; a 2xx response whose body is not one gives a nil
\* key and a non-nil error.
C16_BadKeyRejected ==
    pout.done /\ URLParse(pin.url) = "nil" /\ ~pin.resp.err
            /\ pin.resp.status >= 200 /\ pin.resp.status <= 299
            /\ pin.resp.body.read /\ ~pin.resp.body.armored
        => pout.val.isNil /\ pout.err # "nil"

(***************************************************************************)
(* The artifact URLs in detail (specification SpecURL).  A path segment is *)
(* a sequence of characters; a run of letters that no escaping rule looks  *)
(* at is written as one word ("repodata", "repomd.xml"), and "." and ".."  *)
(* stand alone in their segments.  A base URL is [host, segs, slash]: the  *)
(* path segments as written in the URL and whether the URL ends with "/".  *)
(* An href is [slash, segs]: whether it starts with "/" and its segments   *)
(* as written in repomd.xml, an empty segment standing for a doubled "/";  *)
(* the empty href never gets here (it is the missing entry).  A path is    *)
(* [rooted, segs]; a parsed URL is [err, rooted, segs, trail, raw]: its    *)
(* decoded Path (trail: it ends with "/") and its RawPath, the segments as *)
(* written when encoding Path afresh would not give them back, <<>> when   *)
(* RawPath is empty.  A URL string is [err, host, segs, suffix], read as   *)
(* host "/" seg "/" ... "/" seg suffix.                                    *)
(***************************************************************************)
MaxSegs == 2

\* repo, my%20repo, x%2By, "my repo" and %zz (no escape: z is no hex digit)
BaseSegs ==
    {<<"repo">>, <<"my", "%", "2", "0", "repo">>, <<"x", "%", "2", "B", "y">>,
     <<"my", " ", "repo">>, <<"%", "z", "z">>}
\* repodata, "a b", a%20b, the empty segment, "." and ".."
HrefSegs ==
    {<<"repodata">>, <<"a", " ", "b">>, <<"a", "%", "2", "0", "b">>, <<>>,
     <<".">>, <<"..">>}

\* unescape(s, encodePath): "%" and two hex digits become the character
\* they encode, "+" stays; "%" without two hex digits is an EscapeError
RECURSIVE unescape(_)
unescape(seg) ==
    LET HexDigits == {"0", "1", "2", "3", "4", "5", "6", "7", "8", "9",
                      "a", "b", "c", "d", "e", "f",
                      "A", "B", "C", "D", "E", "F"}
        unhex(h, l) ==
            CASE h = "2" /\ l = "0" -> " "
              [] h = "2" /\ l = "3" -> "#"
              [] h = "2" /\ l = "5" -> "%"
              [] h = "2" /\ l \in {"B", "b"} -> "+"
              [] h = "3" /\ l \in {"F", "f"} -> "?"
    IN  IF seg = <<>> THEN [ok |-> TRUE, seg |-> <<>>]
        ELSE IF Head(seg) = "%" THEN
            IF Len(seg) < 3 \/ seg[2] \notin HexDigits \/ seg[3] \notin HexDigits
                THEN [ok |-> FALSE, seg |-> <<>>]
                ELSE LET rest == unescape(SubSeq(seg, 4, Len(seg)))
                     IN  [ok |-> rest.ok,
                          seg |-> <<unhex(seg[2], seg[3])>> \o rest.seg]
        ELSE LET rest == unescape(Tail(seg))
             IN  [ok |-> rest.ok, seg |-> <<Head(seg)>> \o rest.seg]

\* shouldEscape(c, encodePath): letters, digits, "." and "+" are left alone
shouldEscape(c) == c \in {" ", "%", "#", "?"}

\* escape(s, encodePath): every character that shouldEscape names becomes
\* "%" and its two hex digits
RECURSIVE escape(_)
escape(seg) ==
    LET hex(c) ==
            CASE c = " " -> <<"%", "2", "0">>
              [] c = "#" -> <<"%", "2", "3">>
              [] c = "%" -> <<"%", "2", "5">>
              [] c = "?" -> <<"%", "3", "F">>
    IN  IF seg = <<>> THEN <<>>
        ELSE (IF shouldEscape(Head(seg)) THEN hex(Head(seg)) ELSE <<Head(seg)>>)
                \o escape(Tail(seg))

\* url.Parse(*r.settings.URL): setPath keeps the decoded Path, and the path
\* as written in RawPath when escape(Path) differs from it
ParseBase(base) ==
    LET Decoded == [i \in 1..Len(base.segs) |-> unescape(base.segs[i])]
        path == [i \in 1..Len(base.segs) |-> Decoded[i].seg]
    IN  IF \E i \in 1..Len(base.segs) : ~Decoded[i].ok
            THEN [err |-> "invalid URL escape", rooted |-> FALSE, segs |-> <<>>,
                  trail |-> FALSE, raw |-> <<>>]
            ELSE [err |-> "nil",
                  rooted |-> base.segs # <<>> \/ base.slash,
                  segs |-> path,
                  trail |-> base.slash /\ base.segs # <<>>,
                  raw |-> IF \E i \in 1..Len(path) : escape(path[i]) # base.segs[i]
                            THEN base.segs ELSE <<>>]

\* path.Clean over the segments: empty and "." segments go, ".." removes
\* the segment before it, is dropped at the root and kept at the start of
\* a relative path
RECURSIVE Clean(_, _, _)
Clean(rooted, segs, out) ==
    IF segs = <<>> THEN
        IF out = <<>> /\ ~rooted THEN <<<<".">>>> ELSE out
    ELSE IF Head(segs) \in {<<>>, <<".">>} THEN Clean(rooted, Tail(segs), out)
    ELSE IF Head(segs) = <<"..">> THEN
        IF out # <<>> /\ out[Len(out)] # <<"..">>
            THEN Clean(rooted, Tail(segs), SubSeq(out, 1, Len(out) - 1))
        ELSE IF rooted THEN Clean(rooted, Tail(segs), out)
        ELSE Clean(rooted, Tail(segs), Append(out, <<"..">>))
    ELSE Clean(rooted, Tail(segs), Append(out, Head(segs)))

\* the href as a string starts with "/"
HrefRooted(href) ==
    href.slash \/ (Len(href.segs) > 1 /\ Head(href.segs) = <<>>)

\* path.Join(u.Path, href)
PathJoin(path, href) ==
    LET rooted == path.rooted \/ HrefRooted(href)
    IN  [rooted |-> rooted, segs |-> Clean(rooted, path.segs \o href.segs, <<>>)]

\* u.EscapedPath(): RawPath when it is set, is a valid encoding and still
\* decodes to Path (the assignment to u.Path leaves RawPath as parsed),
\* Path encoded afresh otherwise
EscapedPath(u) ==
    LET validEncoded(seg) ==
            \A i \in 1..Len(seg) : seg[i] = "%" \/ ~shouldEscape(seg[i])
    IN  IF /\ u.raw # <<>>
           /\ \A i \in 1..Len(u.raw) : validEncoded(u.raw[i])
           /\ \A i \in 1..Len(u.raw) : unescape(u.raw[i]).ok
           /\ u.rooted /\ ~u.trail
           /\ u.segs = [i \in 1..Len(u.raw) |-> unescape(u.raw[i]).seg]
            THEN u.raw
            ELSE [i \in 1..Len(u.segs) |-> escape(u.segs[i])]

\* u.String(): a "/" is put between the host and a relative path
URLString(host, u) ==
    [err |-> "nil", host |-> host, suffix |-> "", segs |-> EscapedPath(u)]

\* u, err := url.Parse(...); if err != nil { return "", err };
\* u.Path = path.Join(u.Path, href); return u.String().  A joined path has
\* no trailing "/"; RawPath is the one of the parsed base with its own
\* trailing "/", which then no longer decodes to Path.
ArtifactURL(base, href) ==
    LET u == ParseBase(base)
        p == PathJoin([rooted |-> u.rooted, segs |-> u.segs], href)
    IN  IF u.err # "nil"
            THEN [err |-> u.err, host |-> "", suffix |-> "", segs |-> <<>>]
            ELSE URLString(base.host,
                    [rooted |-> p.rooted, segs |-> p.segs, trail |-> FALSE,
                     raw |-> IF u.trail THEN <<>> ELSE u.raw])

RepomdHref == [slash |-> TRUE, segs |-> <<<<"repodata">>, <<"repomd.xml">>>>]

\* if err == nil { return url + ".asc", nil } else { return "", err }
SignatureURL(base) ==
    LET url == ArtifactURL(base, RepomdHref)
    IN  IF url.err = "nil" THEN [url EXCEPT !.suffix = ".asc"] ELSE url

InitURL ==
    /\ \E bs \in SeqsUpTo(BaseSegs, MaxSegs), bsl \in BOOLEAN,
          hs \in SeqsUpTo(HrefSegs, MaxSegs) \ {<<>>}, hsl \in BOOLEAN :
            /\ hsl \/ hs # <<<<>>>>
            /\ pin = [base |-> [host |-> "http://a", segs |-> bs, slash |-> bsl],
                   href |-> [slash |-> hsl, segs |-> hs]]
    /\ pout = NotRun
    /\ r = Nil /\ last = Nil /\ memo = Nil

DoGetRepomdURL ==
    /\ ~pout.done
    /\ pout' = [done |-> TRUE, op |-> "getRepomdURL",
                url |-> ArtifactURL(pin.base, RepomdHref)]
    /\ UNCHANGED <<r, last, memo, pin>>

DoGetPrimaryURL ==
    /\ ~pout.done
    /\ pout' = [done |-> TRUE, op |-> "getPrimaryURL",
                url |-> ArtifactURL(pin.base, pin.href)]
    /\ UNCHANGED <<r, last, memo, pin>>

DoGetCompsURL ==
    /\ ~pout.done
    /\ pout' = [done |-> TRUE, op |-> "getCompsURL",
                url |-> ArtifactURL(pin.base, pin.href)]
    /\ UNCHANGED <<r, last, memo, pin>>

DoGetSignatureURL ==
    /\ ~pout.done
    /\ pout' = [done |-> TRUE, op |-> "getSignatureURL",
                url |-> SignatureURL(pin.base)]
    /\ UNCHANGED <<r, last, memo, pin>>

NextURL ==
    \/ DoGetRepomdURL
    \/ DoGetPrimaryURL
    \/ DoGetCompsURL
    \/ DoGetSignatureURL

SpecURL == InitURL /\ [][NextURL]_vars

NonEmptySeg(seg) == seg # <<>>

\* a segment that is percent-encoded already stays as written, any other
\* is encoded, once
EncodedOnce(seg) ==
    IF unescape(seg).ok
            /\ \A i \in 1..Len(seg) : seg[i] = "%" \/ ~shouldEscape(seg[i])
        THEN seg ELSE escape(seg)

\* the base as configured, then the segments of the artifact path, one "/"
\* between any two, no segment encoded twice
Appended(b, h) ==
    LET hs == SelectSeq(h.segs, NonEmptySeg)
    IN  [err |-> "nil", host |-> b.host, suffix |-> "",
         segs |-> [i \in 1..Len(b.segs) |-> EncodedOnce(b.segs[i])]
                    \o [i \in 1..Len(hs) |-> EncodedOnce(hs[i])]]

\* C17 as stated: every artifact URL (repomd, primary, comps) is the
\* configured base URL followed by the artifact path with exactly one "/"
\* between the two, whether or not the base ends with "/" or the href
\* starts with "/", and no segment is encoded twice; the signature URL is
\* the repomd URL followed by ".asc".
C17_ArtifactURLIsBasePlusPath ==
    pout.done /\ pout.url.err = "nil" =>
        /\ pout.op \in {"getPrimaryURL", "getCompsURL"}
            => pout.url = Appended(pin.base, pin.href)
        /\ pout.op = "getRepomdURL"
            => pout.url = Appended(pin.base, RepomdHref)
        /\ pout.op = "getSignatureURL"
            => pout.url = [Appended(pin.base, RepomdHref) EXCEPT !.suffix = ".asc"]

(***************************************************************************)
(* getPrimaryURL and getCompsURL over the entries of the index             *)
(* (specification SpecIndex): pin is a repository whose repomd slot holds  *)
(* an index with up to MaxData entries.                                    *)
(***************************************************************************)
MaxData == 3

DataTypes == {"primary", "group", "other"}
DataHrefs == {"", "repodata/a", "repodata/b"}
DataEntries == {DataEntry(t, h) : t \in DataTypes, h \in DataHrefs}

IndexedRepository(u, data) ==
    [NewRepository([Client |-> Nil, URL |-> Some(u), MaxXmlSize |-> Nil]).r
        EXCEPT !.repomd = Some([Data |-> data, Revision |-> "1",
                                RepomdString |-> Some("repomd")])]

InitIndex ==
    /\ \E u \in URLs, data \in SeqsUpTo(DataEntries, MaxData) :
            pin = IndexedRepository(u, data)
    /\ pout = NotRun
    /\ r = Nil
    /\ last = Nil
    /\ memo = Nil

\* primaryURL, err = r.getPrimaryURL()
DoGetPrimaryURLOfIndex ==
    /\ ~pout.done
    /\ pout' = [done |-> TRUE, t |-> "primary", url |-> getPrimaryURL(pin).url,
                err |-> getPrimaryURL(pin).err]
    /\ UNCHANGED <<pin, r, last, memo>>

\* compsURL, err = r.getCompsURL()
DoGetCompsURLOfIndex ==
    /\ ~pout.done
    /\ pout' = [done |-> TRUE, t |-> "group", url |-> getCompsURL(pin).url,
                err |-> getCompsURL(pin).err]
    /\ UNCHANGED <<pin, r, last, memo>>

NextIndex ==
    \/ DoGetPrimaryURLOfIndex
    \/ DoGetCompsURLOfIndex

SpecIndex == InitIndex /\ [][NextIndex]_vars

\* the positions of the entries of type t in the index
EntriesOfType(data, t) == {i \in 1..Len(data) : data[i].Type = t}

\* the last entry of type t in document order
LastOfType(data, t) ==
    data[CHOOSE i \in EntriesOfType(data, t) :
            \A j \in EntriesOfType(data, t) : j <= i]

\* C21: when the index holds several entries of type primary (group), the
\* URL getPrimaryURL (getCompsURL) returns is the base joined with the href
\* of the last of them in document order; an empty href in that last entry
\* is the "unable to parse" error, never a fallback to an earlier entry.
C21_LastEntryWins ==
    pout.done /\ Cardinality(EntriesOfType(pin.repomd.v.Data, pout.t)) >= 2 =>
        LET h == LastOfType(pin.repomd.v.Data, pout.t).Href IN
        IF h = "" THEN pout.url.isNil /\ pout.err \notin {"nil", "missing protocol scheme"}
        ELSE IF URLParse(pin.settings.URL.v) # "nil"
            THEN pout.url.isNil /\ pout.err = URLParse(pin.settings.URL.v)
        ELSE pout.err = "nil" /\ pout.url = Some(JoinURL(pin.settings.URL.v, h))

\* C21 witness: two group entries with different hrefs, the URL of the
\* second returned.
C21_Witness ==
    /\ pout.done /\ pout.t = "group" /\ pout.err = "nil"
    /\ pin.repomd.v.Data = <<DataEntry("group", "repodata/a"),
                             DataEntry("primary", "repodata/a"),
                             DataEntry("group", "repodata/b")>>
    /\ pout.url.v.path = "repodata/b"

(***************************************************************************)
(* The decoders on a stream whose Read starts returning an error other     *)
(* than io.EOF after the sniffed header (specification SpecReadError):     *)
(* a catalog that fails after derr decompressed bytes, a modules stream    *)
(* that fails after rerr documents.                                        *)
(***************************************************************************)
\* the stream of docs that fails after its first k documents; clen is what
\* can be read of it
FailingModuleStream(magic, docs, k) ==
    [ModuleStream(magic, TRUE, docs) EXCEPT
        !.rerr = k, !.clen = ModuleStream(magic, TRUE, SubSeq(docs, 1, k)).clen]

InitReadError ==
    /\ \/ \E m \in CompressedMagics, d \in Docs :
            \E de \in 0..DocBytes(d) :
                pin = [fn |-> "ParseCompressedXMLData",
                       body |-> [Compress(m, d) EXCEPT !.derr = de],
                       maxSize |-> DefaultMaxXmlSize]
       \/ \E m \in CompressedMagics \cup {PlainMagic},
             ds \in SeqsUpTo(ModuleDocs, MaxDocs) :
            \E k \in 0..Len(ds) :
                /\ FailingModuleStream(m, ds, k).clen >= PeekLen
                /\ pin = [fn |-> "parseModuleMDs",
                          body |-> FailingModuleStream(m, ds, k)]
    /\ pout = NotRun
    /\ r = Nil /\ last = Nil /\ memo = Nil

\* packages, err = ParseCompressedXMLData(body, maxSize)
DoParseFailingCatalog ==
    /\ ~pout.done /\ pin.fn = "ParseCompressedXMLData"
    /\ LET o == ParseCompressedXMLData(pin.body, pin.maxSize)
       IN  pout' = [done |-> TRUE, val |-> o.result, acc |-> o.acc,
                    err |-> o.err, steps |-> o.tokens]
    /\ UNCHANGED <<r, last, memo, pin>>

\* moduleMDs, err = parseModuleMDs(body)
DoParseFailingModules ==
    /\ ~pout.done /\ pin.fn = "parseModuleMDs"
    /\ LET o == parseModuleMDs(pin.body)
       IN  pout' = [done |-> TRUE, val |-> o.val, acc |-> ListOf(o.val),
                    err |-> o.err, steps |-> o.steps]
    /\ UNCHANGED <<r, last, memo, pin>>

NextReadError ==
    \/ DoParseFailingCatalog
    \/ DoParseFailingModules

SpecReadError == InitReadError /\ [][NextReadError]_vars

\* the lexemes of the catalog that begin before byte n
LexemesBegun(n) == (n + LexLen - 1) \div LexLen

\* the package end tags wholly read before byte n
PackagesEnded(lex, n) ==
    Cardinality({i \in 1..Min(Len(lex), n \div LexLen) : lex[i] = "p"})

\* C23: when the stream starts returning a read error other than io.EOF
\* while decoding is in progress, ParseCompressedXMLData and parseModuleMDs
\* return a non-nil error; they make at most one call of decoder.Token
\* (decoder.Decode) beyond the tokens (documents) that begin before the
\* error, and decode no record that ends after it.
C23_ReadErrorStopsTheDecoder ==
    pout.done =>
        /\ pout.err # "nil"
        /\ pin.fn = "ParseCompressedXMLData" =>
            /\ pout.steps <= LexemesBegun(pin.body.derr) + 1
            /\ Len(pout.acc) <= PackagesEnded(Lexemes(pin.body.doc), pin.body.derr)
        /\ pin.fn = "parseModuleMDs" =>
            /\ pout.steps <= pin.body.rerr + 1
            /\ pout.acc = <<>>

\* C23 witness: a gzip stream that yields a whole well-formed catalog with
\* one rpm package and then a read error in place of io.EOF; the call made
\* one Token call past the last lexeme and returned the error.
C23_Witness ==
    /\ pout.done /\ pin.fn = "ParseCompressedXMLData"
    /\ pin.body.magic = GzMagic
    /\ pin.body.doc = [prolog |-> TRUE, items |-> <<"rpmA">>, closed |-> TRUE,
                       tail |-> FALSE]
    /\ pin.body.derr = DocBytes(pin.body.doc)
    /\ pout.steps = Len(Lexemes(pin.body.doc))
    /\ pout.err = "Error decoding token"

(***************************************************************************)
(* The size ceiling as a bound on the work of ParseCompressedXMLData       *)
(* (specification SpecParse).                                              *)
(***************************************************************************)
\* C24: ParseCompressedXMLData hands at most maxSize decompressed bytes to
\* the XML tokenizer, however long the decompressed stream is: the calls of
\* decoder.Token are at most one more than the lexemes that begin within the
\* first maxSize decompressed bytes, and no package that ends beyond them is
\* decoded.  The bound depends on maxSize alone, so the call terminates.
C24_CeilingBoundsTheDecoding ==
    pout.done /\ pout.built =>
        /\ pout.tokens <= LexemesBegun(Ceiling) + 1
        /\ Len(pout.acc) <= PackagesEnded(Lexemes(pin.body.doc), Ceiling)

\* C24 witness: an xz catalog of three rpm packages (16 decompressed bytes
\* after 20 compressed ones) under a ceiling of 5 bytes: the tokenizer got
\* the prolog, the root's start tag and one byte of the first package.
C24_Witness ==
    /\ pout.done /\ pout.built /\ pin.body.magic = XzMagic
    /\ pin.body.doc = [prolog |-> TRUE, items |-> <<"rpmA", "rpmB", "rpmA">>,
                       closed |-> TRUE, tail |-> FALSE]
    /\ pin.body.derr = -1 /\ pin.maxSize = 5
    /\ pout.tokens = 3 /\ pout.acc = <<>> /\ pout.err # "nil"

(***************************************************************************)
(* Further claims about the facade (specification Spec).                   *)
(***************************************************************************)
\* C25: every decode driven by the facade is bounded by the configured
\* MaxXmlSize: a PackageGroups, Environments or ModuleMDs call that returns
\* decoded records has read at most MaxXmlSize bytes of content, as a
\* Packages call has.
C25_EveryDecodeIsBounded ==
    last.op \in DependentOps /\ last.err = "nil" =>
        last.decoded <= r.settings.MaxXmlSize.v

\* the slots filled from artifacts that the index locates
IndexedSlots == {"packages", "packageGroups", "environments"}

\* C27: in every state reached by sequential calls of the facade, a
\* populated packages, groups or environments slot implies a populated
\* repomd slot.
C27_ArtifactSlotsImplyRepomd ==
    Populated(r) \cap IndexedSlots # {} => ~r.repomd.isNil

\* C27 witness: a PackageGroups call that found the index in its slot has
\* fetched comps.xml and stored the groups, next to a packages slot filled
\* by an earlier call.
C27_Witness ==
    /\ last.op = "PackageGroups" /\ last.err = "nil" /\ Len(last.reqs) = 1
    /\ {"repomd", "packages", "packageGroups"} \subseteq Populated(r)

\* the status codes of a successful response
SuccessStatuses == 200..299

\* C28: a fetch operation whose artifact was answered with a non-success
\* status returns a non-nil error and a nil value, and leaves its slot as
\* it was.
C28_FailedResponseIsAnError ==
    last.op \in FetchOps /\ last.reqs # <<>> /\ last.status # 0
            /\ last.status \notin SuccessStatuses =>
        last.err # "nil" /\ last.val.isNil

\* C29: every response body a fetch operation obtained is closed when the
\* operation returns, on the success path and on every error path.
C29_BodiesClosedOnReturn ==
    last.op \in FetchOps => last.unclosed = 0

\* every setting of the repository is non-nil
SettingsNonNil(rr) ==
    /\ ~rr.settings.Client.isNil
    /\ ~rr.settings.URL.isNil
    /\ ~rr.settings.MaxXmlSize.isNil

\* C30: Configure replaces the Client and the URL exactly when its argument
\* carries a non-nil one and leaves MaxXmlSize as it was even when the
\* argument carries one; and Client, URL and MaxXmlSize of a repository
\* made by a successful NewRepository are non-nil in every reachable state.
C30_ConfigureFrame ==
    /\ []SettingsNonNil(r)
    /\ [][last'.op = "Configure" =>
            LET st == last'.arg.v IN
            /\ r'.settings.MaxXmlSize = r.settings.MaxXmlSize
            /\ r'.settings.URL = IF st.URL.isNil THEN r.settings.URL ELSE st.URL
            /\ r'.settings.Client =
                    IF st.Client.isNil THEN r.settings.Client ELSE st.Client]_vars

\* C30 witness: a repository made with the default client and ceiling was
\* configured with a new URL, a nil Client and a MaxXmlSize of 3: the URL is
\* the new one, the client and the ceiling are the defaults still.
C30_Witness ==
    /\ last.op = "Configure"
    /\ last.arg.v.Client.isNil /\ last.arg.v.MaxXmlSize = Some(3)
    /\ last.arg.v.URL = Some("http://b/repo/")
    /\ r.settings.URL = Some("http://b/repo/")
    /\ r.settings.Client = Some("DefaultClient")
    /\ r.settings.MaxXmlSize = Some(DefaultMaxXmlSize)

(***************************************************************************)
(* Two callers in Repomd() on one Repository without synchronization       *)
(* (specification SpecRace).  A caller runs the cache check, the fetch     *)
(* and the store as separate steps; pin[c] is its position, the exchange   *)
(* the client answers it with, and the result it holds; memo is the value  *)
(* the slot received from the first store.                                 *)
(***************************************************************************)
Callers == {1, 2}

InitRace ==
    /\ \E st \in YummySettings :
        /\ NewRepository(st).err = "nil"
        /\ r = NewRepository(st).r
    /\ \E a \in RepomdResponses, b \in RepomdResponses :
            pin = [c \in Callers |->
                    [pc |-> "check", resp |-> IF c = 1 THEN a ELSE b,
                     ret |-> Nil]]
    /\ pout = NotRun
    /\ last = Nil
    /\ memo = Nil

\* if r.repomd != nil { return r.repomd, 0, nil }
CallerChecks(c) ==
    /\ pin[c].pc = "check"
    /\ pin' = [pin EXCEPT ![c] =
                IF ~r.repomd.isNil
                    THEN [@ EXCEPT !.pc = "done", !.ret = Some(Repomd(r, @.resp))]
                    ELSE [@ EXCEPT !.pc = "fetch"]]
    /\ UNCHANGED <<r, last, memo, pout>>

\* getRepomdURL, Client.Get, the status check and ParseRepomdXML
CallerFetches(c) ==
    /\ pin[c].pc = "fetch"
    /\ LET o == RepomdFetch(r, pin[c].resp)
       IN  pin' = [pin EXCEPT ![c] =
                    [@ EXCEPT !.pc = IF o.err = "nil" THEN "store" ELSE "done",
                              !.ret = Some(o)]]
    /\ UNCHANGED <<r, last, memo, pout>>

\* r.repomd = &result; return r.repomd, resp.StatusCode, nil
CallerStores(c) ==
    /\ pin[c].pc = "store"
    /\ r' = [r EXCEPT !.repomd = pin[c].ret.v.val]
    /\ memo' = IF memo.isNil THEN pin[c].ret.v.val ELSE memo
    /\ pin' = [pin EXCEPT ![c].pc = "done"]
    /\ UNCHANGED <<last, pout>>

\* a call of Repomd() after both callers have returned
LaterRepomd ==
    /\ \A c \in Callers : pin[c].pc = "done"
    /\ ~pout.done
    /\ pout' = [done |-> TRUE, val |-> Repomd(r, NoResponse).val,
                err |-> Repomd(r, NoResponse).err]
    /\ r' = Repomd(r, NoResponse).r
    /\ UNCHANGED <<last, memo, pin>>

NextRace ==
    \/ \E c \in Callers : CallerChecks(c)
    \/ \E c \in Callers : CallerFetches(c)
    \/ \E c \in Callers : CallerStores(c)
    \/ LaterRepomd

SpecRace == InitRace /\ [][NextRace]_vars

\* C26: when two callers run Repomd() concurrently on an empty slot, the
\* first writer wins: once a caller has stored its value, the slot holds
\* that value from then on, and a later Repomd() returns it.
C26_FirstWriterWins ==
    ~memo.isNil =>
        /\ r.repomd = memo
        /\ pout.done => pout.val = memo

====
